---- MODULE Spec2Model ----
(***************************************************************************)
(* Bucket / file metadata consistency of the storage gateway.              *)
(*                                                                         *)
(* The document store holds bucket and file records.  Every request is an  *)
(* async function: between two awaited repository calls other requests     *)
(* may run, so one action of the model is one repository call together     *)
(* with the synchronous code that follows it up to the next await.         *)
(***************************************************************************)
EXTENDS Integers, Sequences, FiniteSets, TLC

VARIABLES users, buckets, files, cache, nextBucketId, nextFileId, nextNameId, call,
          now, objects, signCount

vars == <<users, buckets, files, cache, nextBucketId, nextFileId, nextNameId, call,
          now, objects, signCount>>

(* ------------------------------ bounds -------------------------------- *)
MaxFiles == 2
MaxBuckets == 2
MaxSize == 2
MaxDownloads == 2

(* two requests in flight at a time *)
Procs == {1, 2}
UserIds == {"u1", "u2"}

(* The empty string, as an identifier argument. *)
EmptyId == 0
(* an id of blanks only: trim() makes it the empty id *)
BlankId == -1
FileIdInputs == 0..MaxFiles
BucketIdInputs == 0..(MaxBuckets + 1)
SizeInputs == (0..MaxSize) \cup {-1}
ValidSizes == 0..MaxSize

(* Strings the code trims or lower-cases are sequences of characters. *)
FileNameInputs == {<<>>, <<"a">>, <<"b">>, <<" ", "a">>}
ValidFileNames == {<<"a">>, <<"b">>}
BucketNameInputs ==
  {<<>>, <<" ">>, <<"a">>, <<"a", "b">>, <<"A", "B">>, <<" ", "a", "b", " ">>, <<"b", "a">>}
OwnerIdInputs == UserIds \cup {"", "u9"}

(* ------------------------- string operations -------------------------- *)
RECURSIVE TrimLeft(_)
TrimLeft(s) ==
  IF s # <<>> /\ Head(s) = " " THEN TrimLeft(Tail(s)) ELSE s

RECURSIVE TrimRight(_)
TrimRight(s) ==
  IF s # <<>> /\ s[Len(s)] = " " THEN TrimRight(SubSeq(s, 1, Len(s) - 1)) ELSE s

Trim(s) == TrimRight(TrimLeft(s))

LowerChar(c) == IF c = "A" THEN "a" ELSE IF c = "B" THEN "b" ELSE c

ToLowerCase(s) == [i \in 1..Len(s) |-> LowerChar(s[i])]

(* msg.includes(pat), on messages split into words *)
Includes(msg, pat) ==
  \E i \in 0..(Len(msg) - Len(pat)) : SubSeq(msg, i + 1, i + Len(pat)) = pat

(* ----------------------------- messages ------------------------------- *)
NoErr == <<>>
ErrAllFields == <<"All", "file", "fields", "are", "required">>
ErrNegativeSize == <<"File", "size", "cannot", "be", "negative">>
ErrBucketNotFound == <<"Bucket", "not", "found">>
ErrFileExists == <<"File", "with", "this", "name", "already", "exists", "in", "bucket">>
ErrFileIdRequired == <<"File", "ID", "is", "required">>
ErrFileNotFound == <<"File", "not", "found">>
ErrFileNameRequired == <<"File", "name", "is", "required">>
ErrBucketNameRequired == <<"Bucket", "name", "is", "required">>
ErrOwnerIdRequired == <<"Owner", "ID", "is", "required">>
ErrOwnerNotFound == <<"Owner", "not", "found">>
ErrBucketExists ==
  <<"Bucket", "with", "this", "name", "already", "exists", "for", "this", "owner">>
ErrBucketIdRequired == <<"Bucket", "ID", "is", "required">>
ErrBucketNotEmpty ==
  <<"Cannot", "delete", "bucket", "that", "contains", "files.", "Delete", "all",
    "files", "first.">>
ErrBucketNameTooShort ==
  <<"Bucket", "name", "must", "be", "at", "least", "2", "characters", "long">>
ErrAuthHeaderRequired == <<"Authorization", "header", "is", "required">>
ErrInvalidPublicKey == <<"Invalid", "public", "key">>
ErrFileTypeRequired == <<"File", "type", "is", "required">>
ErrTypeSizeRequired == <<"fileType", "and", "fileSize", "are", "required">>
ErrSizeTooLarge == <<"File", "size", "cannot", "exceed", "100MB">>
ErrNotInStorage == <<"File", "not", "found", "in", "storage">>
ErrDownloadFailed == <<"Failed", "to", "download", "file", "from", "storage">>
ErrStreaming == <<"Error", "streaming", "file">>
ErrUploadUrl == <<"Failed", "to", "generate", "upload", "URL">>
(* the rejection of a repository call: a driver or connection error *)
ErrRepository == <<"database", "error">>
ErrDownloadUrl == <<"Failed", "to", "generate", "download", "URL">>
ErrFileIdQueryRequired == <<"fileId", "query", "parameter", "is", "required">>
ErrFileIdParamRequired == <<"fileId", "parameter", "is", "required">>
ErrFileNameQueryRequired == <<"fileName", "query", "parameter", "is", "required">>
ErrNotInBucket == <<"File", "does", "not", "belong", "to", "this", "bucket">>
ErrPublicKeyRequired == <<"Public", "key", "is", "required">>
ErrPrivateKeyRequired == <<"Private", "key", "is", "required">>
ErrUserNotFound == <<"User", "not", "found">>
ErrBucketAccess == <<"Bucket", "not", "found", "or", "access", "denied">>
ErrEmailRegistered == <<"Email", "already", "registered">>
ErrAccessDenied == <<"Access", "denied">>
(* reading .id of req.bucket when no middleware has set it *)
ErrBucketUndefined ==
  <<"Cannot", "read", "properties", "of", "undefined", "(reading", "'id')">>

(* ------------------------------ records ------------------------------- *)
(* auth is req.bucket (NoBucket: undefined); key is the bucket whose public *)
(* key the caller sent; status and out are the response written           *)
NoBucket == 0

(* an Authorization header as startsWith and slice(7) take it apart: the *)
(* first seven characters and the rest; no header at all has neither     *)
AbsentHeader == [scheme |-> "", key |-> <<>>]

Idle ==
  [ctl |-> "none", op |-> "none", pc |-> "idle", bucketId |-> 0, fileId |-> 0,
   name |-> <<>>, size |-> 0, ownerId |-> "", exBucket |-> 0, exSize |-> 0,
   exName |-> <<>>, ret |-> "none", err |-> NoErr,
   auth |-> NoBucket, key |-> NoBucket, status |-> 0, out |-> 0,
   url |-> "", cacheKey |-> 0, expiresIn |-> 0, value |-> "undefined",
   hit |-> FALSE, executed |-> 0, age |-> 0, ms |-> 0, ttl |-> 0,
   rules |-> "none", thrown |-> NoErr, reads |-> 0, result |-> {},
   secret |-> <<>>, exists |-> FALSE, opened |-> FALSE, headersSent |-> FALSE,
   sent |-> 0, userId |-> "", email |-> <<>>, before |-> <<>>,
   declared |-> FALSE, signAt |-> 0, header |-> AbsentHeader]

(* User.create: the schema trims and lowercases email *)
NormalizeEmail(e) == ToLowerCase(Trim(e))

NewUser(email) == [email |-> NormalizeEmail(email)]

(* the users every run starts with *)
InitUsers ==
  [u \in UserIds |-> NewUser(IF u = "u1" THEN <<"a">> ELSE <<"b">>)]

NewBucket(name, ownerId, key) ==
  [name |-> name, ownerId |-> ownerId,
   publicKey |-> <<"pub", key>>, privateKey |-> <<"prv", key>>,
   downloadCount |-> 0, uploadCount |-> 0, totalSize |-> 0, fileCount |-> 0]

(* File.create: the schema trims name; downloads starts at 0 *)
NewFile(bucketId, name, size) ==
  [bucketId |-> bucketId, name |-> Trim(name), size |-> size, downloads |-> 0]

(* --------------------------- repositories ----------------------------- *)
(* every bucket id is taken to exist *)
BucketExistsAlways(bs, id) == TRUE

BucketExists(bs, id) == id \in DOMAIN bs

FileExists(fs, id) == id \in DOMAIN fs

(* the filter compared as given, without the schema's trim *)
FilesByNameRaw(fs, bucketId, name) ==
  {f \in DOMAIN fs : fs[f].bucketId = bucketId /\ fs[f].name = name}

(* File.findOne({bucketId, name}): the String path casts the filter with trim *)
FilesByName(fs, bucketId, name) ==
  {f \in DOMAIN fs : fs[f].bucketId = bucketId /\ fs[f].name = Trim(name)}

(* the filter matches nothing *)
FilesByBucketIDNone(fs, bucketId) == {}

FilesByBucketID(fs, bucketId) == {f \in DOMAIN fs : fs[f].bucketId = bucketId}

(* the ownerId filter dropped: every bucket is returned *)
BucketsByOwnerIDAll(bs, ownerId) == DOMAIN bs

(* Bucket.find({ownerId}) *)
BucketsByOwnerID(bs, ownerId) == {b \in DOMAIN bs : bs[b].ownerId = ownerId}

InsertBucket(bs, id, rec) == [b \in DOMAIN bs \cup {id} |-> IF b = id THEN rec ELSE bs[b]]

RemoveBucket(bs, id) == [b \in DOMAIN bs \ {id} |-> bs[b]]

(* an update that also writes a key *)
RenameBucketRekey(bs, id, name) ==
  IF id \in DOMAIN bs /\ name # <<>>
  THEN [bs EXCEPT ![id].name = Trim(name), ![id].publicKey = <<"pub", 0>>]
  ELSE bs

(* Bucket.findOneAndUpdate({id}, {name}): the update is cast, name trimmed *)
RenameBucket(bs, id, name) ==
  IF id \in DOMAIN bs /\ name # <<>> THEN [bs EXCEPT ![id].name = Trim(name)] ELSE bs

(* BucketSchema.name: minlength 2, checked by Bucket.create *)
BucketNameMinLength == 2

(* the record is not persisted *)
InsertFileNone(fs, id, rec) == fs

InsertFile(fs, id, rec) == [f \in DOMAIN fs \cup {id} |-> IF f = id THEN rec ELSE fs[f]]

(* the delete that removes nothing *)
RemoveFileNone(fs, id) == fs

(* every delete reports a removed record *)
DeletedAlways(fs, id) == TRUE

(* fileRepository.deleteFile: result !== null, a record was found and removed *)
Deleted(fs, id) == id \in DOMAIN fs

RemoveFile(fs, id) == [f \in DOMAIN fs \ {id} |-> fs[f]]

(* the size delta applied, the count delta forgotten *)
UpdateBucketStatsSizeOnly(bs, id, fileSizeDelta, fileCountDelta) ==
  IF id \in DOMAIN bs THEN [bs EXCEPT ![id].totalSize = @ + fileSizeDelta] ELSE bs

(* findOneAndUpdate({id}, {$inc: {totalSize, fileCount}}): no match, no change *)
UpdateBucketStats(bs, id, fileSizeDelta, fileCountDelta) ==
  IF id \in DOMAIN bs
  THEN [bs EXCEPT ![id].totalSize = @ + fileSizeDelta,
                  ![id].fileCount = @ + fileCountDelta]
  ELSE bs

(* a $set of the counter instead of an $inc: the last writer wins *)
IncrementUploadCountSet(bs, id) ==
  IF id \in DOMAIN bs THEN [bs EXCEPT ![id].uploadCount = 1] ELSE bs

IncrementUploadCount(bs, id) ==
  IF id \in DOMAIN bs THEN [bs EXCEPT ![id].uploadCount = @ + 1] ELSE bs

(* the bucket-level increment lost *)
IncrementDownloadCountNone(bs, id) == bs

IncrementDownloadCount(bs, id) ==
  IF id \in DOMAIN bs THEN [bs EXCEPT ![id].downloadCount = @ + 1] ELSE bs

(* ------------------------------ calls --------------------------------- *)
CanStart(p) == call[p].pc \in {"idle", "done"}

InCall(p, op, pc) == call[p].op = op /\ call[p].pc = pc

(* a service method returns or throws: a bare service call is done, a    *)
(* controller resumes after its await; the locals of the method are gone *)
Return(c, ret, err) ==
  [Idle EXCEPT !.ctl = c.ctl, !.op = c.op, !.fileId = c.fileId,
               !.auth = c.auth, !.key = c.key, !.url = c.url,
               !.exists = c.exists, !.opened = c.opened, !.before = c.before,
               !.userId = c.userId,
               !.pc = IF c.ctl = "none" THEN "done" ELSE "ret",
               !.ret = ret, !.err = err]

(* --------------------------- FileService ------------------------------ *)
(* createFile, lines 8-24: validation, then getBucketByID *)
CreateFileEnter(c, bs, bucketId, name, size) ==
  LET d == [c EXCEPT !.op = "createFile", !.bucketId = bucketId, !.name = name,
                     !.size = size, !.fileId = 0]
  IN IF bucketId = EmptyId \/ name = <<>> THEN Return(d, "throw", ErrAllFields)
     ELSE IF size < 0 THEN Return(d, "throw", ErrNegativeSize)
     ELSE IF ~BucketExists(bs, bucketId) THEN Return(d, "throw", ErrBucketNotFound)
     ELSE [d EXCEPT !.pc = "checkName"]

(* createFile, lines 26-30: getFileByName *)
CreateFileCheckName(p) ==
  /\ InCall(p, "createFile", "checkName")
  /\ LET c == call[p] IN
       call' = [call EXCEPT ![p] =
         IF FilesByName(files, c.bucketId, c.name) # {}
         THEN Return(c, "throw", ErrFileExists)
         ELSE [c EXCEPT !.pc = "insert"]]
  /\ UNCHANGED <<users, buckets, files, nextBucketId, nextFileId, cache, nextNameId, now, objects, signCount>>

(* createFile, lines 32-43: fileRepository.createFile with a fresh id *)
CreateFileInsert(p) ==
  /\ InCall(p, "createFile", "insert")
  /\ nextFileId <= MaxFiles
  /\ LET c == call[p] IN
       /\ files' = InsertFile(files, nextFileId, NewFile(c.bucketId, c.name, c.size))
       /\ call' = [call EXCEPT ![p] = [c EXCEPT !.pc = "stats", !.fileId = nextFileId]]
  /\ nextFileId' = nextFileId + 1
  /\ UNCHANGED <<users, buckets, nextBucketId, cache, nextNameId, now, objects, signCount>>

(* createFile, line 46: updateBucketStats(bucketId, size, 1) *)
CreateFileStats(p) ==
  /\ InCall(p, "createFile", "stats")
  /\ buckets' = UpdateBucketStats(buckets, call[p].bucketId, call[p].size, 1)
  /\ call' = [call EXCEPT ![p].pc = "uploads"]
  /\ UNCHANGED <<users, files, nextBucketId, nextFileId, cache, nextNameId, now, objects, signCount>>

(* createFile, lines 47-49: incrementUploadCount, return newFile *)
CreateFileUploads(p) ==
  /\ InCall(p, "createFile", "uploads")
  /\ buckets' = IncrementUploadCount(buckets, call[p].bucketId)
  /\ call' = [call EXCEPT ![p] = Return(call[p], "file", NoErr)]
  /\ UNCHANGED <<users, files, nextBucketId, nextFileId, cache, nextNameId, now, objects, signCount>>

(* createFile, line 46: updateBucketStats rejects; the error propagates *)
CreateFileStatsFail(p) ==
  /\ InCall(p, "createFile", "stats")
  /\ call' = [call EXCEPT ![p] = Return(call[p], "throw", ErrRepository)]
  /\ UNCHANGED <<users, buckets, files, nextBucketId, nextFileId, cache, nextNameId, now, objects, signCount>>

(* createFile, line 47: incrementUploadCount rejects; the error propagates *)
CreateFileUploadsFail(p) ==
  /\ InCall(p, "createFile", "uploads")
  /\ call' = [call EXCEPT ![p] = Return(call[p], "throw", ErrRepository)]
  /\ UNCHANGED <<users, buckets, files, nextBucketId, nextFileId, cache, nextNameId, now, objects, signCount>>

(* deleteFile, lines 111-120: validation, then getFileByID *)
DeleteFileEnter(c, fs, fileId) ==
  LET d == [c EXCEPT !.op = "deleteFile", !.fileId = fileId]
  IN IF fileId = EmptyId THEN Return(d, "throw", ErrFileIdRequired)
     ELSE IF ~FileExists(fs, fileId) THEN Return(d, "throw", ErrFileNotFound)
     ELSE [d EXCEPT !.pc = "delete", !.exBucket = fs[fileId].bucketId,
                    !.exSize = fs[fileId].size, !.exName = fs[fileId].name]

(* deleteFile, lines 122-125: findOneAndDelete; deleted = (result !== null) *)
DeleteFileDelete(p) ==
  /\ InCall(p, "deleteFile", "delete")
  /\ LET c == call[p] IN
       IF Deleted(files, c.fileId)
       THEN /\ files' = RemoveFile(files, c.fileId)
            /\ call' = [call EXCEPT ![p] = [c EXCEPT !.pc = "stats"]]
       ELSE /\ files' = files
            /\ call' = [call EXCEPT ![p] = Return(c, "false", NoErr)]
  /\ UNCHANGED <<users, buckets, nextBucketId, nextFileId, cache, nextNameId, now, objects, signCount>>

(* deleteFile, lines 127-130: updateBucketStats(bucketId, -size, -1), return *)
DeleteFileStats(p) ==
  /\ InCall(p, "deleteFile", "stats")
  /\ buckets' = UpdateBucketStats(buckets, call[p].exBucket, -call[p].exSize, -1)
  /\ call' = [call EXCEPT ![p] = Return(call[p], "true", NoErr)]
  /\ UNCHANGED <<users, files, nextBucketId, nextFileId, cache, nextNameId, now, objects, signCount>>

(* updateFile, lines 86-106: validation, getFileByID; a name that differs *)
(* from the record's is looked up next                                    *)
UpdateFileEnter(c, fs, fileId, name) ==
  LET d == [c EXCEPT !.op = "updateFile", !.fileId = fileId, !.name = name]
  IN IF fileId = EmptyId THEN Return(d, "throw", ErrFileIdRequired)
     ELSE IF ~FileExists(fs, fileId) THEN Return(d, "throw", ErrFileNotFound)
     ELSE [d EXCEPT !.pc = IF name # <<>> /\ name # fs[fileId].name
                           THEN "checkName" ELSE "update",
                    !.exBucket = fs[fileId].bucketId, !.exName = fs[fileId].name]

(* updateFile, lines 99-105: getFileByName(existingFile.bucketId, name) *)
UpdateFileCheckName(p) ==
  /\ InCall(p, "updateFile", "checkName")
  /\ LET c == call[p] IN
       call' = [call EXCEPT ![p] =
         IF FilesByName(files, c.exBucket, c.name) # {}
         THEN Return(c, "throw", ErrFileExists)
         ELSE [c EXCEPT !.pc = "update"]]
  /\ UNCHANGED <<users, buckets, files, nextBucketId, nextFileId, cache, nextNameId, now, objects, signCount>>

(* File.findOneAndUpdate({id}, updateData): the update is cast by the    *)
(* schema (name trimmed); without a name only the metadata is written     *)
RenameFile(fs, id, name) ==
  IF id \in DOMAIN fs /\ name # <<>> THEN [fs EXCEPT ![id].name = Trim(name)] ELSE fs

(* updateFile, line 108: fileRepository.updateFile, null when no match *)
UpdateFileWrite(p) ==
  /\ InCall(p, "updateFile", "update")
  /\ LET c == call[p] IN
       /\ files' = RenameFile(files, c.fileId, c.name)
       /\ call' = [call EXCEPT ![p] =
            Return(c, IF FileExists(files, c.fileId) THEN "file" ELSE "null", NoErr)]
  /\ UNCHANGED <<users, buckets, nextBucketId, nextFileId, cache, nextNameId, now, objects, signCount>>

(* incrementDownloads, lines 133-142: validation, then getFileByID *)
IncrementDownloadsEnter(c, fs, fileId) ==
  LET d == [c EXCEPT !.op = "incrementDownloads", !.fileId = fileId]
  IN IF fileId = EmptyId THEN Return(d, "throw", ErrFileIdRequired)
     ELSE IF ~FileExists(fs, fileId) THEN Return(d, "throw", ErrFileNotFound)
     ELSE [d EXCEPT !.pc = "incFile", !.exBucket = fs[fileId].bucketId]

(* File.findOneAndUpdate({id}, {$inc: {downloads: 1}}) *)
IncrementFileDownloads(fs, id) ==
  IF id \in DOMAIN fs THEN [fs EXCEPT ![id].downloads = @ + 1] ELSE fs

(* incrementDownloads, lines 145-148: the file-level increment *)
IncrementDownloadsFile(p) ==
  /\ InCall(p, "incrementDownloads", "incFile")
  /\ LET c == call[p] IN
       /\ files' = IncrementFileDownloads(files, c.fileId)
       /\ call' = [call EXCEPT ![p] =
            IF FileExists(files, c.fileId) THEN [c EXCEPT !.pc = "incBucket"]
            ELSE Return(c, "null", NoErr)]
  /\ UNCHANGED <<users, buckets, nextBucketId, nextFileId, cache, nextNameId, now, objects, signCount>>

(* incrementDownloads, lines 149-152: the bucket-level increment, return *)
IncrementDownloadsBucket(p) ==
  /\ InCall(p, "incrementDownloads", "incBucket")
  /\ buckets' = IncrementDownloadCount(buckets, call[p].exBucket)
  /\ call' = [call EXCEPT ![p] = Return(call[p], "file", NoErr)]
  /\ UNCHANGED <<users, files, nextBucketId, nextFileId, cache, nextNameId, now, objects, signCount>>

(* increments requested for file f and not yet applied to its record *)
PendingDownloads(f) ==
  Cardinality({q \in Procs : call[q].pc = "incFile" /\ call[q].fileId = f})

DownloadsBelowBound(f) ==
  f \in DOMAIN files => files[f].downloads + PendingDownloads(f) < MaxDownloads

(* --------------------------- BucketService ---------------------------- *)
(* names are compared per owner after trim and lower-casing *)
NormalizeName(name) == ToLowerCase(Trim(name))

(* the owner's buckets, other than `except`, whose name equals `name` *)
NameTaken(bs, ownerId, name, except) ==
  {b \in BucketsByOwnerID(bs, ownerId) \ {except} :
     NormalizeName(bs[b].name) = NormalizeName(name)}

(* createBucket: validation, then the owner lookup *)
CreateBucketEnter(c, us, name, ownerId) ==
  LET d == [c EXCEPT !.op = "createBucket", !.name = name, !.ownerId = ownerId]
  IN IF Trim(name) = <<>> THEN Return(d, "throw", ErrBucketNameRequired)
     ELSE IF ownerId = "" THEN Return(d, "throw", ErrOwnerIdRequired)
     ELSE IF ownerId \notin DOMAIN us THEN Return(d, "throw", ErrOwnerNotFound)
     ELSE [d EXCEPT !.pc = "scan"]

(* createBucket: the name collision scan over the owner's buckets *)
CreateBucketScan(p) ==
  /\ InCall(p, "createBucket", "scan")
  /\ LET c == call[p] IN
       call' = [call EXCEPT ![p] =
         IF NameTaken(buckets, c.ownerId, c.name, 0) # {}
         THEN Return(c, "throw", ErrBucketExists)
         ELSE [c EXCEPT !.pc = "insert"]]
  /\ UNCHANGED <<users, buckets, files, nextBucketId, nextFileId, cache, nextNameId, now, objects, signCount>>

(* createBucket: the record is persisted with a fresh key pair, counters 0 *)
CreateBucketInsert(p) ==
  /\ InCall(p, "createBucket", "insert")
  /\ nextBucketId <= MaxBuckets
  /\ LET c == call[p] IN
       IF Len(Trim(c.name)) < BucketNameMinLength
       THEN /\ call' = [call EXCEPT ![p] = Return(c, "throw", ErrBucketNameTooShort)]
            /\ UNCHANGED <<buckets, nextBucketId, cache, nextNameId, now, objects, signCount>>
       ELSE /\ buckets' = InsertBucket(buckets, nextBucketId,
                                       NewBucket(Trim(c.name), c.ownerId, nextBucketId))
            /\ nextBucketId' = nextBucketId + 1
            /\ call' = [call EXCEPT ![p] = Return(c, "bucket", NoErr)]
  /\ UNCHANGED <<users, files, nextFileId, cache, nextNameId, now, objects, signCount>>

(* updateBucket: validation, getBucketByID; a changed name is scanned for *)
UpdateBucketEnter(c, bs, bucketId, name) ==
  LET d == [c EXCEPT !.op = "updateBucket", !.bucketId = bucketId, !.name = name]
  IN IF bucketId = EmptyId THEN Return(d, "throw", ErrBucketIdRequired)
     ELSE IF ~BucketExists(bs, bucketId) THEN Return(d, "throw", ErrBucketNotFound)
     ELSE [d EXCEPT !.pc = IF name # <<>> /\ Trim(name) # bs[bucketId].name
                           THEN "scan" ELSE "write",
                    !.ownerId = bs[bucketId].ownerId, !.exName = bs[bucketId].name]

(* updateBucket: the uniqueness check, the updated bucket excluded *)
UpdateBucketScan(p) ==
  /\ InCall(p, "updateBucket", "scan")
  /\ LET c == call[p] IN
       call' = [call EXCEPT ![p] =
         IF NameTaken(buckets, c.ownerId, c.name, c.bucketId) # {}
         THEN Return(c, "throw", ErrBucketExists)
         ELSE [c EXCEPT !.pc = "write"]]
  /\ UNCHANGED <<users, buckets, files, nextBucketId, nextFileId, cache, nextNameId, now, objects, signCount>>

(* updateBucket: bucketRepository.updateBucket *)
UpdateBucketWrite(p) ==
  /\ InCall(p, "updateBucket", "write")
  /\ LET c == call[p] IN
       /\ buckets' = RenameBucket(buckets, c.bucketId, c.name)
       /\ call' = [call EXCEPT ![p] =
            Return(c, IF BucketExists(buckets, c.bucketId) THEN "bucket" ELSE "null", NoErr)]
  /\ UNCHANGED <<users, files, nextBucketId, nextFileId, cache, nextNameId, now, objects, signCount>>

(* deleteBucket: validation, then getBucketByID *)
DeleteBucketEnter(c, bs, bucketId) ==
  LET d == [c EXCEPT !.op = "deleteBucket", !.bucketId = bucketId]
  IN IF bucketId = EmptyId THEN Return(d, "throw", ErrBucketIdRequired)
     ELSE IF ~BucketExists(bs, bucketId) THEN Return(d, "throw", ErrBucketNotFound)
     ELSE [d EXCEPT !.pc = "checkFiles"]

(* deleteBucket: getFilesByBucketID, a non-empty bucket is refused *)
DeleteBucketCheckFiles(p) ==
  /\ InCall(p, "deleteBucket", "checkFiles")
  /\ LET c == call[p] IN
       call' = [call EXCEPT ![p] =
         IF FilesByBucketID(files, c.bucketId) # {}
         THEN Return(c, "throw", ErrBucketNotEmpty)
         ELSE [c EXCEPT !.pc = "delete"]]
  /\ UNCHANGED <<users, buckets, files, nextBucketId, nextFileId, cache, nextNameId, now, objects, signCount>>

(* deleteBucket: bucketRepository.deleteBucket, false when no match *)
DeleteBucketDelete(p) ==
  /\ InCall(p, "deleteBucket", "delete")
  /\ LET c == call[p] IN
       /\ buckets' = IF BucketExists(buckets, c.bucketId)
                     THEN RemoveBucket(buckets, c.bucketId) ELSE buckets
       /\ call' = [call EXCEPT ![p] =
            Return(c, IF BucketExists(buckets, c.bucketId) THEN "true" ELSE "false", NoErr)]
  /\ UNCHANGED <<users, files, nextBucketId, nextFileId, cache, nextNameId, now, objects, signCount>>

StartCreateBucket(p) ==
  /\ CanStart(p)
  /\ \E n \in BucketNameInputs, o \in OwnerIdInputs :
       call' = [call EXCEPT ![p] = CreateBucketEnter(Idle, users, n, o)]
  /\ UNCHANGED <<users, buckets, files, nextBucketId, nextFileId, cache, nextNameId, now, objects, signCount>>

StartUpdateBucket(p) ==
  /\ CanStart(p)
  /\ \E b \in BucketIdInputs, n \in BucketNameInputs \ {<<" ">>} :
       call' = [call EXCEPT ![p] = UpdateBucketEnter(Idle, buckets, b, n)]
  /\ UNCHANGED <<users, buckets, files, nextBucketId, nextFileId, cache, nextNameId, now, objects, signCount>>

StartDeleteBucket(p) ==
  /\ CanStart(p)
  /\ \E b \in BucketIdInputs :
       call' = [call EXCEPT ![p] = DeleteBucketEnter(Idle, buckets, b)]
  /\ UNCHANGED <<users, buckets, files, nextBucketId, nextFileId, cache, nextNameId, now, objects, signCount>>

(* a caller invokes fileService.createFile / deleteFile *)
StartCreateFile(p, B, N, S) ==
  /\ CanStart(p)
  /\ \E b \in B, n \in N, s \in S :
       call' = [call EXCEPT ![p] = CreateFileEnter(Idle, buckets, b, n, s)]
  /\ UNCHANGED <<users, buckets, files, nextBucketId, nextFileId, cache, nextNameId, now, objects, signCount>>

(* getFilesByBucketId, lines 60-69: validation, then getBucketByID; reads *)
(* counts the repository calls made                                      *)
GetFilesByBucketIdEnter(c, bs, bucketId) ==
  LET d == [c EXCEPT !.op = "getFilesByBucketId"]
  IN IF bucketId = EmptyId \/ bucketId = BlankId
     THEN [Return(d, "throw", ErrBucketIdRequired) EXCEPT !.bucketId = bucketId]
     ELSE IF ~BucketExists(bs, bucketId)
     THEN [Return(d, "throw", ErrBucketNotFound)
             EXCEPT !.bucketId = bucketId, !.reads = 1]
     ELSE [d EXCEPT !.pc = "query", !.bucketId = bucketId, !.reads = 1]

StartGetFilesByBucketId(p, B) ==
  /\ CanStart(p)
  /\ \E b \in B :
       call' = [call EXCEPT ![p] = GetFilesByBucketIdEnter(Idle, buckets, b)]
  /\ UNCHANGED <<users, buckets, files, nextBucketId, nextFileId, cache, nextNameId, now, objects, signCount>>

(* getFilesByBucketId, line 71: getFilesByBucketID *)
GetFilesByBucketIdQuery(p) ==
  /\ InCall(p, "getFilesByBucketId", "query")
  /\ LET c == call[p] IN
       call' = [call EXCEPT ![p] =
         [Return(c, "files", NoErr)
            EXCEPT !.bucketId = c.bucketId, !.reads = 2,
                   !.result = FilesByBucketID(files, c.bucketId)]]
  /\ UNCHANGED <<users, buckets, files, nextBucketId, nextFileId, cache, nextNameId, now, objects, signCount>>

StartDeleteFile(p, F) ==
  /\ CanStart(p)
  /\ \E f \in F :
       call' = [call EXCEPT ![p] = DeleteFileEnter(Idle, files, f)]
  /\ UNCHANGED <<users, buckets, files, nextBucketId, nextFileId, cache, nextNameId, now, objects, signCount>>

StartUpdateFile(p, F, N) ==
  /\ CanStart(p)
  /\ \E f \in F, n \in N :
       call' = [call EXCEPT ![p] = UpdateFileEnter(Idle, files, f, n)]
  /\ UNCHANGED <<users, buckets, files, nextBucketId, nextFileId, cache, nextNameId, now, objects, signCount>>

StartIncrementDownloads(p, F) ==
  /\ CanStart(p)
  /\ \E f \in F :
       /\ DownloadsBelowBound(f)
       /\ call' = [call EXCEPT ![p] = IncrementDownloadsEnter(Idle, files, f)]
  /\ UNCHANGED <<users, buckets, files, nextBucketId, nextFileId, cache, nextNameId, now, objects, signCount>>

(* ------------------------------- cache -------------------------------- *)
(* JavaScript values, by their printed form *)
Undefined == "undefined"
Falsy == {"undefined", "null", "0", "", "false"}
(* every value passes for truthy *)
TruthyAlways(v) == TRUE

Truthy(v) == v \notin Falsy

MsPerSecond == 1000

(* Math.ceil(a / b), a >= 0 and b > 0 *)
Ceil(a, b) == (a + b - 1) \div b

(* NodeCache: an entry is [v, t]; t is the time it expires at, 0 for never. *)
(* at and ms record when and with which expiresIn it was stored.            *)
(* An entry is expired when t # 0 and t < Date.now().                       *)
CacheLiveNever(e, t) == FALSE

CacheLive(e, t) == e.t = 0 \/ ~(e.t < t)

CacheHas(ch, k, t) == k \in DOMAIN ch /\ CacheLive(ch[k], t)

(* a lookup that finds nothing *)
CacheGetMiss(ch, k, t) == Undefined

(* cache.get(key) *)
CacheGet(ch, k, t) == IF CacheHas(ch, k, t) THEN ch[k].v ELSE Undefined

(* cache.get deletes the entry it finds expired *)
CacheAfterGet(ch, k, t) ==
  IF k \in DOMAIN ch /\ ~CacheLive(ch[k], t)
  THEN [j \in DOMAIN ch \ {k} |-> ch[j]] ELSE ch

(* a set that leaves an existing entry as it is *)
CacheSetKeep(ch, k, v, ttl, t) ==
  [j \in DOMAIN ch \cup {k} |->
     IF j \in DOMAIN ch THEN ch[j]
     ELSE [v |-> v, t |-> IF ttl = 0 THEN 0 ELSE t + ttl * MsPerSecond,
           at |-> t, ms |-> 0]]

(* cache.set(key, value, ttl): ttl in seconds, none (0) for no expiry *)
CacheSet(ch, k, v, ttl, t) ==
  [j \in DOMAIN ch \cup {k} |->
     IF j = k
     THEN [v |-> v, t |-> IF ttl = 0 THEN 0 ELSE t + ttl * MsPerSecond,
           at |-> t, ms |-> 0]
     ELSE ch[j]]

(* the store ignores expiresIn: nothing expires *)
StoreWithOptionsForever(ch, k, v, expiresIn, t) ==
  [CacheSet(ch, k, v, 0, t) EXCEPT ![k].ms = expiresIn]

(* getFromCache lines 28-32 and storeInCache: expiresIn in milliseconds, *)
(* none (0) for no expiry                                                *)
StoreWithOptions(ch, k, v, expiresIn, t) ==
  IF expiresIn # 0
  THEN [CacheSet(ch, k, v, Ceil(expiresIn, MsPerSecond), t) EXCEPT ![k].ms = expiresIn]
  ELSE CacheSet(ch, k, v, 0, t)

(* the arguments of the cache functions *)
CacheKeys == {1}
ExpiresInInputs == {0, 1, 1500}
ExecutorResults == Falsy \cup {"v1", "v2"}
StoredValues == {"v1", "null"}

(* a finished cache call: what it returned, whether it was a hit, how   *)
(* often it ran its executor, and the age and expiresIn of the entry it *)
(* returned                                                             *)
CacheDone(op, k, v, hit, executed, age, ms) ==
  [Idle EXCEPT !.op = op, !.pc = "done", !.cacheKey = k, !.value = v, !.hit = hit,
               !.executed = executed, !.age = age, !.ms = ms]

(* getFromCache, lines 21-26: cache.get, then the executor is awaited *)
GetFromCacheEnter(ch, k, expiresIn, t) ==
  IF CacheGet(ch, k, t) # Undefined
  THEN CacheDone("getFromCache", k, CacheGet(ch, k, t), TRUE, 0, t - ch[k].at, ch[k].ms)
  ELSE [Idle EXCEPT !.op = "getFromCache", !.pc = "executor", !.cacheKey = k,
                    !.expiresIn = expiresIn]

StartGetFromCache(p) ==
  /\ CanStart(p)
  /\ \E k \in CacheKeys, expiresIn \in ExpiresInInputs :
       /\ call' = [call EXCEPT ![p] = GetFromCacheEnter(cache, k, expiresIn, now)]
       /\ cache' = CacheAfterGet(cache, k, now)
  /\ UNCHANGED <<users, buckets, files, nextBucketId, nextFileId, nextNameId, now, objects, signCount>>

(* getFromCache, lines 26-34: the executor's result, stored when truthy *)
GetFromCacheExecutor(p) ==
  /\ InCall(p, "getFromCache", "executor")
  /\ LET c == call[p] IN
       \E result \in ExecutorResults :
         /\ cache' = IF Truthy(result)
                     THEN StoreWithOptions(cache, c.cacheKey, result, c.expiresIn, now)
                     ELSE cache
         /\ call' = [call EXCEPT ![p] =
              CacheDone("getFromCache", c.cacheKey, result, FALSE, 1, 0, 0)]
  /\ UNCHANGED <<users, buckets, files, nextBucketId, nextFileId, nextNameId, now, objects, signCount>>

(* storeInCache, lines 43-49 *)
StoreInCache(p) ==
  /\ CanStart(p)
  /\ \E k \in CacheKeys, v \in StoredValues, expiresIn \in ExpiresInInputs :
       /\ cache' = StoreWithOptions(cache, k, v, expiresIn, now)
       /\ call' = [call EXCEPT ![p] = CacheDone("storeInCache", k, v, FALSE, 0, 0, 0)]
  /\ UNCHANGED <<users, buckets, files, nextBucketId, nextFileId, nextNameId, now, objects, signCount>>

(* getCache, lines 80-82 *)
GetCache(p) ==
  /\ CanStart(p)
  /\ \E k \in CacheKeys :
       /\ call' = [call EXCEPT ![p] =
            IF CacheHas(cache, k, now)
            THEN CacheDone("getCache", k, CacheGet(cache, k, now), TRUE, 0,
                           now - cache[k].at, cache[k].ms)
            ELSE CacheDone("getCache", k, Undefined, FALSE, 0, 0, 0)]
       /\ cache' = CacheAfterGet(cache, k, now)
  /\ UNCHANGED <<users, buckets, files, nextBucketId, nextFileId, nextNameId, now, objects, signCount>>

(* the expiry timestamp itself instead of the time remaining *)
CacheTTLAbsolute(ch, k, t) ==
  IF ~CacheHas(ch, k, t) THEN -2
  ELSE IF ch[k].t = 0 THEN -1
  ELSE ch[k].t

(* getCacheTTL, lines 89-98: cache.getTtl(key) is undefined for an absent *)
(* or expired key, 0 for an entry without expiry, else its expiry time    *)
CacheTTL(ch, k, t) ==
  IF ~CacheHas(ch, k, t) THEN -2
  ELSE IF ch[k].t = 0 THEN -1
  ELSE IF ch[k].t - t > 0 THEN ch[k].t - t ELSE 0

GetCacheTTL(p) ==
  /\ CanStart(p)
  /\ \E k \in CacheKeys :
       /\ call' = [call EXCEPT ![p] =
            [CacheDone("getCacheTTL", k, Undefined, FALSE, 0, 0, 0)
               EXCEPT !.ttl = CacheTTL(cache, k, now)]]
       /\ cache' = CacheAfterGet(cache, k, now)
  /\ UNCHANGED <<users, buckets, files, nextBucketId, nextFileId, nextNameId, now, objects, signCount>>

(* --------------------------- public routes ---------------------------- *)
(* the Authorization header: absent, the key of a bucket, an unknown key *)
NoHeader == <<>>
KeyInputs == {NoHeader, <<"pub", 1>>, <<"pub", 2>>, <<"pub", 9>>}

(* every key is the key of some bucket *)
BucketsByPublicKeyAll(bs, publicKey) == DOMAIN bs

BucketsByPublicKey(bs, publicKey) ==
  {b \in DOMAIN bs : bs[b].publicKey = publicKey}

KeyBucket(bs, publicKey) ==
  IF BucketsByPublicKey(bs, publicKey) = {} THEN NoBucket
  ELSE CHOOSE b \in BucketsByPublicKey(bs, publicKey) : TRUE

(* baseRoutes: the entries with public: true get no PublicKeyMiddleware *)
Handlers == {"getUploadUri", "getDownloadUrl", "downloadFile", "getFileInfo"}
PublicRoutes == {"getDownloadUrl", "downloadFile", "getFileInfo"}

(* the response written: status, message, and the file a URL was issued *)
(* for; sent counts the responses written to res                       *)
Respond(c, status, msg, out) ==
  [Idle EXCEPT !.ctl = c.ctl, !.pc = "done", !.key = c.key, !.fileId = c.fileId,
               !.status = status, !.err = msg, !.out = out,
               !.exists = c.exists, !.opened = c.opened, !.before = c.before,
               !.userId = c.userId,
               !.headersSent = TRUE, !.sent = c.sent + 1]

(* an ErrorMappingRule: its condition as alternatives, each a set of     *)
(* patterns the message must all include; its handler as the status it  *)
(* answers with and the message it puts in place of the thrown one      *)
(* (NoErr: the thrown message is passed on)                             *)
DEFAULT_ERROR_MAPPINGS ==
  << [when |-> {{<<"already", "exists">>}, {<<"duplicate">>}},
      status |-> 409, msg |-> NoErr],
     [when |-> {{<<"not", "found">>}, {<<"Invalid", "credentials">>}, {<<"Unauthorized">>}},
      status |-> 401, msg |-> NoErr],
     [when |-> {{<<"does", "not", "exist">>}, {<<"Not", "found">>}, {<<"cannot", "find">>}},
      status |-> 404, msg |-> NoErr] >>

(* the rule lists the wrappers are built with: controllerWrapper's       *)
(* default, authControllerWrapper and resourceControllerWrapper          *)
CustomMappings ==
  [none |-> <<>>,
   auth |-> << [when |-> {{<<"email">>, <<"already">>}},
                status |-> 409, msg |-> ErrEmailRegistered] >>,
   resource |-> << [when |-> {{<<"permission">>}, {<<"access">>}},
                    status |-> 401, msg |-> ErrAccessDenied] >>]

Matches(rule, msg) == \E alt \in rule.when : \A pat \in alt : Includes(msg, pat)

(* the last matching rule instead of the first *)
LastMatch(rules, msg) ==
  LET hits == {i \in 1..Len(rules) : Matches(rules[i], msg)}
  IN IF hits = {} THEN 0 ELSE CHOOSE i \in hits : \A j \in hits : j <= i

(* allMappings.find(rule => rule.condition(errorMessage)); 0: no rule *)
FirstMatch(rules, msg) ==
  LET hits == {i \in 1..Len(rules) : Matches(rules[i], msg)}
  IN IF hits = {} THEN 0 ELSE CHOOSE i \in hits : \A j \in hits : i <= j

(* controllerWrapper's catch, lines 61-75 *)
MapError(custom, msg) ==
  LET allMappings == custom \o DEFAULT_ERROR_MAPPINGS
      i == FirstMatch(allMappings, msg)
  IN IF i = 0 THEN [status |-> 500, msg |-> msg]
     ELSE [status |-> allMappings[i].status,
           msg |-> IF allMappings[i].msg = NoErr THEN msg ELSE allMappings[i].msg]

(* the status a handler wrapped with no custom rules answers a throw with *)
StatusOf(msg) == MapError(<<>>, msg).status

Fail(c, msg) == Respond(c, StatusOf(msg), msg, 0)

Bearer == "Bearer "

(* the header that presents publicKey as the routes' clients do *)
BearerHeader(publicKey) ==
  IF publicKey = NoHeader THEN AbsentHeader ELSE [scheme |-> Bearer, key |-> publicKey]

ErrBearerRequired == <<"Authorization", "header", "must", "start", "with", "Bearer">>

(* PublicKeyMiddleware, lines 10-52; rejects: getBucketByPublicKey throws; *)
(* pc "handler" is next() called                                          *)
PublicKeyMiddleware(c, bs, authHeader, rejects) ==
  LET publicKey == authHeader.key
      Unauthorized(msg) == [Respond(c, 401, msg, 0) EXCEPT !.header = authHeader]
  IN IF authHeader.scheme = "" THEN Unauthorized(ErrAuthHeaderRequired)
     ELSE IF authHeader.scheme # Bearer THEN Unauthorized(ErrBearerRequired)
     ELSE IF publicKey = <<>> \/ publicKey = <<" ">>
     THEN Unauthorized(ErrPublicKeyRequired)
     ELSE IF rejects THEN Unauthorized(ErrRepository)
     ELSE IF BucketsByPublicKey(bs, publicKey) = {}
     THEN Unauthorized(ErrInvalidPublicKey)
     ELSE [c EXCEPT !.auth = KeyBucket(bs, publicKey), !.pc = "handler",
                    !.header = authHeader]

(* publicRouter: the middlewares that run before the handler *)
RouteEnter(bs, handler, publicKey) ==
  LET c == [Idle EXCEPT !.ctl = handler, !.key = KeyBucket(bs, publicKey)]
  IN IF handler \in PublicRoutes THEN [c EXCEPT !.pc = "handler"]
     ELSE PublicKeyMiddleware(c, bs, BearerHeader(publicKey), FALSE)

StartRequest(p) ==
  /\ CanStart(p)
  /\ \E handler \in Handlers, publicKey \in KeyInputs :
       call' = [call EXCEPT ![p] = RouteEnter(buckets, handler, publicKey)]
  /\ UNCHANGED <<users, buckets, files, cache, nextBucketId, nextFileId, nextNameId, now, objects, signCount>>

(* a request to POST /public/file/upload-uri with any kind of header, *)
(* whose bucket lookup may fail                                       *)
HeaderInputs ==
  {BearerHeader(k) : k \in KeyInputs}
    \cup {[scheme |-> Bearer, key |-> <<>>], [scheme |-> Bearer, key |-> <<" ">>],
          [scheme |-> "Basic ", key |-> <<"pub", 1>>]}

StartWithHeader(p) ==
  /\ CanStart(p)
  /\ \E authHeader \in HeaderInputs, rejects \in BOOLEAN :
       call' = [call EXCEPT ![p] =
         PublicKeyMiddleware(
           [Idle EXCEPT !.ctl = "getUploadUri",
                        !.key = KeyBucket(buckets, authHeader.key)],
           buckets, authHeader, rejects)]
  /\ UNCHANGED <<users, buckets, files, cache, nextBucketId, nextFileId, nextNameId, now, objects, signCount>>

(* a request to POST /public/file/upload-uri *)
StartUploadUri(p) ==
  /\ CanStart(p)
  /\ \E publicKey \in KeyInputs :
       call' = [call EXCEPT ![p] = RouteEnter(buckets, "getUploadUri", publicKey)]
  /\ UNCHANGED <<users, buckets, files, cache, nextBucketId, nextFileId, nextNameId, now, objects, signCount>>

InHandler(p, handler, pc) == call[p].ctl = handler /\ call[p].pc = pc

(* `${fileName}xxx${generateAppID('FILE')}` *)
FinalFileName(fileName, k) == fileName \o <<"x", "x", "x", ToString(k)>>

(* the limit of getUploadUriValidation, 100 * 1024 * 1024 *)
MaxUploadBytes == 104857600

(* sizes equal to the limit are refused as well *)
ValidateFileSizeBelow(hasSize, fileSize) ==
  IF ~hasSize THEN NoErr
  ELSE IF fileSize < 0 THEN ErrNegativeSize
  ELSE IF fileSize >= MaxUploadBytes THEN ErrSizeTooLarge
  ELSE NoErr

(* getUploadUriValidation, body('fileSize'): optional, then the custom *)
(* check; NoErr when it passes                                         *)
ValidateFileSize(hasSize, fileSize) ==
  IF ~hasSize THEN NoErr
  ELSE IF fileSize < 0 THEN ErrNegativeSize
  ELSE IF fileSize > MaxUploadBytes THEN ErrSizeTooLarge
  ELSE NoErr

(* getUploadUri, lines 26-46, after getUploadUriValidation; a response to *)
(* a refused fileSize keeps the size that was declared, and whether one   *)
(* was declared at all                                                    *)
GetUploadUriHandler(p, S) ==
  /\ InHandler(p, "getUploadUri", "handler")
  /\ nextNameId <= MaxFiles
  /\ \E fileName \in {<<>>, <<"a">>}, hasType \in BOOLEAN, hasSize \in BOOLEAN,
        fileSize \in S :
       LET c == call[p] IN
         IF fileName = <<>>
         THEN /\ call' = [call EXCEPT ![p] = Respond(c, 422, ErrFileNameRequired, 0)]
              /\ UNCHANGED nextNameId
         ELSE IF ~hasType
         THEN /\ call' = [call EXCEPT ![p] = Respond(c, 422, ErrFileTypeRequired, 0)]
              /\ UNCHANGED nextNameId
         ELSE IF ValidateFileSize(hasSize, fileSize) # NoErr
         THEN /\ call' = [call EXCEPT ![p] =
                   [Respond(c, 422, ValidateFileSize(hasSize, fileSize), 0)
                      EXCEPT !.size = fileSize]]
              /\ UNCHANGED nextNameId
         ELSE IF ~hasSize \/ fileSize = 0
         THEN /\ call' = [call EXCEPT ![p] =
                   [Fail(c, ErrTypeSizeRequired)
                      EXCEPT !.declared = hasSize,
                             !.size = IF hasSize THEN fileSize ELSE 0]]
              /\ UNCHANGED nextNameId
         ELSE /\ call' = [call EXCEPT ![p] =
                   CreateFileEnter(c, buckets, c.auth,
                                   FinalFileName(fileName, nextNameId), fileSize)]
              /\ nextNameId' = nextNameId + 1
  /\ UNCHANGED <<users, buckets, files, cache, nextBucketId, nextFileId, now, objects, signCount>>

(* getUploadUri, lines 48-75: generatePresignedUploadUrl succeeds or throws *)
GetUploadUriSign(p) ==
  /\ InHandler(p, "getUploadUri", "ret")
  /\ LET c == call[p] IN
       \E signed \in BOOLEAN :
         call' = [call EXCEPT ![p] =
           IF c.ret = "throw" THEN Fail(c, c.err)
           ELSE IF signed THEN Respond(c, 200, NoErr, c.fileId)
           ELSE Fail(c, ErrUploadUrl)]
  /\ UNCHANGED <<users, buckets, files, cache, nextBucketId, nextFileId, nextNameId, now, objects, signCount>>

(* the start of getDownloadUrl, downloadFile and getFileInfo: the fileId *)
(* check, getFileById, and the comparison with bucket.id                 *)
FindOwnedFile(c, fs, fileId, required, pc) ==
  LET d == [c EXCEPT !.fileId = fileId]
  IN IF fileId = EmptyId THEN Fail(d, required)
     ELSE IF ~FileExists(fs, fileId) THEN Fail(d, ErrFileNotFound)
     ELSE IF d.auth = NoBucket THEN Fail(d, ErrBucketUndefined)
     ELSE IF fs[fileId].bucketId # d.auth THEN Fail(d, ErrNotInBucket)
     ELSE [d EXCEPT !.pc = pc]

GetDownloadUrlEnter(c, fs, fileId) ==
  FindOwnedFile(c, fs, fileId, ErrFileIdQueryRequired, "cache")

DownloadFileEnter(c, fs, fileId) ==
  FindOwnedFile(c, fs, fileId, ErrFileIdParamRequired, "exists")

GetFileInfoEnter(c, fs, hasFileName, fileId) ==
  IF ~hasFileName THEN Respond(c, 422, ErrFileNameQueryRequired, 0)
  ELSE FindOwnedFile(c, fs, fileId, ErrFileIdQueryRequired, "exists")

GetDownloadUrlHandler(p) ==
  /\ InHandler(p, "getDownloadUrl", "handler")
  /\ \E fileId \in FileIdInputs :
       call' = [call EXCEPT ![p] = GetDownloadUrlEnter(call[p], files, fileId)]
  /\ UNCHANGED <<users, buckets, files, cache, nextBucketId, nextFileId, nextNameId, now, objects, signCount>>

DownloadFileHandler(p) ==
  /\ InHandler(p, "downloadFile", "handler")
  /\ \E fileId \in FileIdInputs :
       call' = [call EXCEPT ![p] = DownloadFileEnter(call[p], files, fileId)]
  /\ UNCHANGED <<users, buckets, files, cache, nextBucketId, nextFileId, nextNameId, now, objects, signCount>>

GetFileInfoHandler(p) ==
  /\ InHandler(p, "getFileInfo", "handler")
  /\ \E hasFileName \in BOOLEAN, fileId \in FileIdInputs :
       call' = [call EXCEPT ![p] =
         GetFileInfoEnter(call[p], files, hasFileName, fileId)]
  /\ UNCHANGED <<users, buckets, files, cache, nextBucketId, nextFileId, nextNameId, now, objects, signCount>>

(* 60 * 60 * 1000 *)
DownloadUrlTtlMs == 3600000

(* the presigned URL: each signing yields a string of its own *)
(* the URL carries the instant it was signed at (X-Amz-Date) and is valid *)
(* for UrlValidityMs from then (X-Amz-Expires = 3600)                    *)
UrlValidityMs == 3600000

PresignedUrl(fileId, n, t) ==
  "url-" \o ToString(fileId) \o "-" \o ToString(n) \o "-at-" \o ToString(t)

(* getDownloadUrl, lines 98-103 and 113: getFromCache finds the URL and  *)
(* incrementDownloads is entered, or the executor is awaited             *)
GetDownloadUrlCache(p) ==
  /\ InHandler(p, "getDownloadUrl", "cache")
  /\ LET c == call[p]
         v == CacheGet(cache, c.fileId, now)
     IN /\ cache' = CacheAfterGet(cache, c.fileId, now)
        /\ call' = [call EXCEPT ![p] =
             IF v # Undefined
             THEN IncrementDownloadsEnter([c EXCEPT !.url = v], files, c.fileId)
             ELSE [c EXCEPT !.pc = "sign", !.signAt = now]]
  /\ UNCHANGED <<users, buckets, files, nextBucketId, nextFileId, nextNameId, now, objects, signCount>>

(* getDownloadUrl, lines 104-113: generatePresignedDownloadUrl throws, or *)
(* its URL is stored for an hour and incrementDownloads is entered; the   *)
(* URL was signed at some instant between the call and its completion     *)
GetDownloadUrlSign(p) ==
  /\ InHandler(p, "getDownloadUrl", "sign")
  /\ LET c == call[p] IN
       \E signed \in BOOLEAN, t \in {c.signAt, now} :
         IF signed
         THEN LET u == PresignedUrl(c.fileId, signCount + 1, t) IN
              /\ signCount' = signCount + 1
              /\ cache' = StoreWithOptions(cache, c.fileId, u, DownloadUrlTtlMs, now)
              /\ call' = [call EXCEPT ![p] =
                   IncrementDownloadsEnter([c EXCEPT !.url = u], files, c.fileId)]
         ELSE /\ call' = [call EXCEPT ![p] = Fail(c, ErrDownloadUrl)]
              /\ UNCHANGED <<cache, signCount>>
  /\ UNCHANGED <<users, buckets, files, nextBucketId, nextFileId, nextNameId, now, objects>>

(* getDownloadUrl, lines 115-132: the response, with the URL *)
GetDownloadUrlRespond(p) ==
  /\ InHandler(p, "getDownloadUrl", "ret")
  /\ LET c == call[p] IN
       call' = [call EXCEPT ![p] =
         IF c.ret = "throw" THEN Fail(c, c.err)
         ELSE [Respond(c, 200, NoErr, c.fileId) EXCEPT !.url = c.url]]
  /\ UNCHANGED <<users, buckets, files, cache, nextBucketId, nextFileId, nextNameId, now, objects, signCount>>

(* the handler entered with req.bucket set, as PublicKeyMiddleware sets it; *)
(* a caller makes one request, after the requests of the callers before it  *)
StartDownloadOnce(p) ==
  /\ call[p].pc = "idle"
  /\ \A q \in Procs : q < p => call[q].pc = "done"
  /\ \E publicKey \in KeyInputs :
       call' = [call EXCEPT ![p] =
         PublicKeyMiddleware(
           [Idle EXCEPT !.ctl = "getDownloadUrl", !.key = KeyBucket(buckets, publicKey)],
           buckets, BearerHeader(publicKey), FALSE)]
  /\ UNCHANGED <<users, buckets, files, cache, nextBucketId, nextFileId, nextNameId, now, objects, signCount>>

(* downloadFile entered with req.bucket set, as PublicKeyMiddleware sets it *)
StartDownloadFile(p) ==
  /\ CanStart(p)
  /\ \E publicKey \in KeyInputs :
       call' = [call EXCEPT ![p] =
         PublicKeyMiddleware(
           [Idle EXCEPT !.ctl = "downloadFile", !.key = KeyBucket(buckets, publicKey)],
           buckets, BearerHeader(publicKey), FALSE)]
  /\ UNCHANGED <<users, buckets, files, cache, nextBucketId, nextFileId, nextNameId, now, objects, signCount>>

(* downloadFile, lines 233-237: R2Helper.fileExists answers true, answers *)
(* false for NoSuchKey, or rethrows another fault of the object store     *)
DownloadFileExists(p) ==
  /\ InHandler(p, "downloadFile", "exists")
  /\ LET c == call[p] IN
       \E fault \in BOOLEAN :
         call' = [call EXCEPT ![p] =
           IF fault THEN Fail(c, <<"storage", "error">>)
           ELSE IF c.fileId \notin objects THEN Fail(c, ErrNotInStorage)
           ELSE [c EXCEPT !.pc = "stream", !.exists = TRUE]]
  /\ UNCHANGED <<users, buckets, files, cache, nextBucketId, nextFileId, nextNameId, now, objects, signCount>>

(* downloadFile, lines 239-250: getFileStream opens the stream or throws, *)
(* the headers are set, and incrementDownloads is entered                 *)
DownloadFileStream(p) ==
  /\ InHandler(p, "downloadFile", "stream")
  /\ DownloadsBelowBound(call[p].fileId)
  /\ LET c == call[p] IN
       \E opened \in BOOLEAN :
         call' = [call EXCEPT ![p] =
           IF opened
           THEN IncrementDownloadsEnter([c EXCEPT !.opened = TRUE], files, c.fileId)
           ELSE Fail(c, ErrDownloadFailed)]
  /\ UNCHANGED <<users, buckets, files, cache, nextBucketId, nextFileId, nextNameId, now, objects, signCount>>

(* downloadFile, lines 250-263: a throw of incrementDownloads is caught *)
(* and thrown again; otherwise the stream is piped to the response      *)
DownloadFilePipe(p) ==
  /\ InHandler(p, "downloadFile", "ret")
  /\ LET c == call[p] IN
       call' = [call EXCEPT ![p] =
         IF c.ret = "throw" THEN Fail(c, ErrDownloadFailed)
         ELSE [c EXCEPT !.pc = "piping", !.out = c.fileId]]
  /\ UNCHANGED <<users, buckets, files, cache, nextBucketId, nextFileId, nextNameId, now, objects, signCount>>

(* every stream error writes a response *)
OnStreamErrorAlways(c) == Respond(c, 500, ErrStreaming, 0)

(* the 'error' handler, lines 256-260 *)
OnStreamError(c) ==
  IF ~c.headersSent THEN Respond(c, 500, ErrStreaming, 0)
  ELSE [c EXCEPT !.pc = "done"]

(* the first chunk of the piped stream: the response starts, headers sent *)
StreamData(p) ==
  /\ InHandler(p, "downloadFile", "piping")
  /\ ~call[p].headersSent
  /\ call' = [call EXCEPT ![p] =
       [call[p] EXCEPT !.headersSent = TRUE, !.status = 200, !.sent = @ + 1]]
  /\ UNCHANGED <<users, buckets, files, cache, nextBucketId, nextFileId, nextNameId, now, objects, signCount>>

(* the stream ends: pipe ends the response, starting it if nothing was sent *)
StreamEnd(p) ==
  /\ InHandler(p, "downloadFile", "piping")
  /\ call' = [call EXCEPT ![p] =
       IF call[p].headersSent THEN [call[p] EXCEPT !.pc = "done"]
       ELSE [call[p] EXCEPT !.pc = "done", !.headersSent = TRUE,
                            !.status = 200, !.sent = @ + 1]]
  /\ UNCHANGED <<users, buckets, files, cache, nextBucketId, nextFileId, nextNameId, now, objects, signCount>>

(* the stream emits 'error', before or after the first chunk *)
StreamError(p) ==
  /\ InHandler(p, "downloadFile", "piping")
  /\ call' = [call EXCEPT ![p] = OnStreamError(call[p])]
  /\ UNCHANGED <<users, buckets, files, cache, nextBucketId, nextFileId, nextNameId, now, objects, signCount>>

(* a key of blanks only *)
BlankKey == <<" ">>

(* every bucket matches the key *)
BucketsByPrivateKeyAll(bs, privateKey) == DOMAIN bs

BucketsByPrivateKey(bs, privateKey) ==
  {b \in DOMAIN bs : bs[b].privateKey = privateKey}

(* the bucket a lookup resolves to, NoBucket for null *)
FoundBucket(c, found, reads) ==
  [Return(c, IF found = {} THEN "null" ELSE "bucket", NoErr)
     EXCEPT !.bucketId = c.bucketId, !.secret = c.secret, !.reads = reads,
            !.out = IF found = {} THEN NoBucket ELSE CHOOSE b \in found : TRUE]

(* getBucketById: validation, then getBucketByID *)
GetBucketById(p) ==
  /\ CanStart(p)
  /\ \E id \in BucketIdInputs \cup {BlankId} :
       call' = [call EXCEPT ![p] =
         LET d == [Idle EXCEPT !.op = "getBucketById", !.bucketId = id] IN
         IF id = EmptyId \/ id = BlankId
         THEN [Return(d, "throw", ErrBucketIdRequired) EXCEPT !.bucketId = id]
         ELSE FoundBucket(d, IF BucketExists(buckets, id) THEN {id} ELSE {}, 1)]
  /\ UNCHANGED <<users, buckets, files, cache, nextBucketId, nextFileId, nextNameId, now, objects, signCount>>

(* getBucketByPublicKey: validation, then the repository's lookup *)
GetBucketByPublicKey(p) ==
  /\ CanStart(p)
  /\ \E key \in KeyInputs \cup {BlankKey} :
       call' = [call EXCEPT ![p] =
         LET d == [Idle EXCEPT !.op = "getBucketByPublicKey", !.secret = key] IN
         IF key = <<>> \/ key = BlankKey
         THEN [Return(d, "throw", ErrPublicKeyRequired) EXCEPT !.secret = key]
         ELSE FoundBucket(d, BucketsByPublicKey(buckets, key), 1)]
  /\ UNCHANGED <<users, buckets, files, cache, nextBucketId, nextFileId, nextNameId, now, objects, signCount>>

(* getBucketByPrivateKey: validation, then the repository's lookup *)
GetBucketByPrivateKey(p) ==
  /\ CanStart(p)
  /\ \E key \in {<<>>, BlankKey, <<"prv", 1>>, <<"prv", 2>>, <<"prv", 9>>} :
       call' = [call EXCEPT ![p] =
         LET d == [Idle EXCEPT !.op = "getBucketByPrivateKey", !.secret = key] IN
         IF key = <<>> \/ key = BlankKey
         THEN [Return(d, "throw", ErrPrivateKeyRequired) EXCEPT !.secret = key]
         ELSE FoundBucket(d, BucketsByPrivateKey(buckets, key), 1)]
  /\ UNCHANGED <<users, buckets, files, cache, nextBucketId, nextFileId, nextNameId, now, objects, signCount>>

(* getBucketsByOwnerId: validation, then getUserByID *)
StartGetBucketsByOwnerId(p) ==
  /\ CanStart(p)
  /\ \E o \in OwnerIdInputs \cup {" "} :
       call' = [call EXCEPT ![p] =
         LET d == [Idle EXCEPT !.op = "getBucketsByOwnerId", !.ownerId = o] IN
         IF o = "" \/ o = " "
         THEN [Return(d, "throw", ErrOwnerIdRequired) EXCEPT !.ownerId = o]
         ELSE IF o \notin DOMAIN users
         THEN [Return(d, "throw", ErrOwnerNotFound) EXCEPT !.ownerId = o, !.reads = 1]
         ELSE [d EXCEPT !.pc = "query", !.reads = 1]]
  /\ UNCHANGED <<users, buckets, files, cache, nextBucketId, nextFileId, nextNameId, now, objects, signCount>>

(* getBucketsByOwnerId: getBucketsByOwnerID, whose list is returned *)
GetBucketsByOwnerIdQuery(p) ==
  /\ InCall(p, "getBucketsByOwnerId", "query")
  /\ LET c == call[p] IN
       call' = [call EXCEPT ![p] =
         [Return(c, "buckets", NoErr)
            EXCEPT !.ownerId = c.ownerId, !.reads = 2,
                   !.result = BucketsByOwnerID(buckets, c.ownerId)]]
  /\ UNCHANGED <<users, buckets, files, cache, nextBucketId, nextFileId, nextNameId, now, objects, signCount>>

(* what a wrapped controller function does: it throws one of these, or *)
(* (NoErr) it answers the request itself                               *)
ThrownMessages ==
  {NoErr, ErrFileNotFound, ErrBucketNotFound, ErrUserNotFound, ErrFileExists,
   ErrNotInBucket, ErrTypeSizeRequired, ErrBucketAccess,
   <<"Invalid", "credentials">>,
   <<"User", "already", "exists", "with", "this", "email">>,
   <<"Email", "already", "exists">>,
   <<"Bucket", "does", "not", "exist">>,
   <<"duplicate", "key", "not", "found">>,
   <<"Unauthorized", "user", "does", "not", "exist">>}

(* errors.array() of validationResult(req) *)
ValidationErrors ==
  {<<>>, <<ErrFileNameQueryRequired>>, <<ErrNegativeSize, ErrFileTypeRequired>>}

(* controllerWrapper, lines 50-76: the response of a wrapped function;   *)
(* executed counts the runs of the function, thrown is what it threw     *)
WrapperResponse(rules, errors, thrown) ==
  LET c == [Idle EXCEPT !.ctl = "wrapped"]
      r == MapError(CustomMappings[rules], thrown)
  IN IF errors # <<>>
     THEN [Respond(c, 422, errors[1], 0) EXCEPT !.rules = rules]
     ELSE IF thrown = NoErr
     THEN [Respond(c, 200, NoErr, 0) EXCEPT !.rules = rules, !.executed = 1]
     ELSE [Respond(c, r.status, r.msg, 0)
             EXCEPT !.rules = rules, !.executed = 1, !.thrown = thrown]

ControllerWrapper(p) ==
  /\ CanStart(p)
  /\ \E rules \in DOMAIN CustomMappings, errors \in ValidationErrors,
        thrown \in ThrownMessages :
       call' = [call EXCEPT ![p] = WrapperResponse(rules, errors, thrown)]
  /\ UNCHANGED <<users, buckets, files, cache, nextBucketId, nextFileId, nextNameId, now, objects, signCount>>

(* the clock moves to a later instant *)
Instants == {0, 1, 1000, 1001, 2000, 2001}

Tick ==
  /\ \E t \in Instants : t > now /\ now' = t
  /\ UNCHANGED <<users, buckets, files, cache, nextBucketId, nextFileId, nextNameId, call, objects, signCount>>

(* the clock around the end of an hour; while a request is in flight it *)
(* moves by a millisecond, between requests by any amount               *)
HourInstants == {0, 1, UrlValidityMs, UrlValidityMs + 1}

TickHour ==
  /\ \E t \in HourInstants :
       /\ t > now
       /\ (\E p \in Procs : ~CanStart(p)) => t = now + 1
       /\ now' = t
  /\ UNCHANGED <<users, buckets, files, cache, nextBucketId, nextFileId, nextNameId, call, objects, signCount>>

(* ------------------------ the multipart upload ------------------------ *)
ErrNoFile == <<"No", "file", "uploaded">>

(* `${Date.now()}_${originalName}` *)
StampedName(t, originalName) == <<ToString(t), "_">> \o originalName

(* a request to POST /public/file/upload *)
StartUpload(p) ==
  /\ CanStart(p)
  /\ \E publicKey \in KeyInputs :
       call' = [call EXCEPT ![p] = RouteEnter(buckets, "uploadFile", publicKey)]
  /\ UNCHANGED <<users, buckets, files, cache, nextBucketId, nextFileId, nextNameId, now, objects, signCount>>

(* uploadFile, lines 137-170: the file check, the final name, and either *)
(* getFileByName for a provided name or createFile; before holds the    *)
(* bucket's totalSize and fileCount as the request found them           *)
UploadFileHandler(p) ==
  /\ InHandler(p, "uploadFile", "handler")
  /\ \E hasFile \in BOOLEAN, fileName \in {<<>>, <<"a">>}, fileSize \in ValidSizes :
       LET c == [call[p] EXCEPT !.before = <<buckets[call[p].auth].totalSize,
                                             buckets[call[p].auth].fileCount>>] IN
         call' = [call EXCEPT ![p] =
           IF ~hasFile THEN Fail(c, ErrNoFile)
           ELSE IF fileName # <<>>
           THEN [c EXCEPT !.op = "getFileByName", !.pc = "byName",
                          !.name = fileName, !.size = fileSize]
           ELSE CreateFileEnter(c, buckets, c.auth, StampedName(now, <<"o">>), fileSize)]
  /\ UNCHANGED <<users, buckets, files, cache, nextBucketId, nextFileId, nextNameId, now, objects, signCount>>

(* uploadFile, lines 155-170: getFileByName has answered *)
UploadFileByName(p) ==
  /\ InHandler(p, "uploadFile", "byName")
  /\ LET c == call[p] IN
       call' = [call EXCEPT ![p] =
         IF FilesByName(files, c.auth, c.name) # {} THEN Fail(c, ErrFileExists)
         ELSE CreateFileEnter(c, buckets, c.auth, c.name, c.size)]
  /\ UNCHANGED <<users, buckets, files, cache, nextBucketId, nextFileId, nextNameId, now, objects, signCount>>

(* uploadFile, lines 172-210: createFile has answered; then               *)
(* generatePresignedUploadUrl succeeds, or throws and the catch block    *)
(* calls deleteFile(file.id)                                             *)
UploadFileSign(p) ==
  /\ InHandler(p, "uploadFile", "ret")
  /\ call[p].op = "createFile"
  /\ LET c == call[p] IN
       \E signed \in BOOLEAN :
         call' = [call EXCEPT ![p] =
           IF c.ret = "throw" THEN Fail(c, c.err)
           ELSE IF signed THEN Respond(c, 201, NoErr, c.fileId)
           ELSE DeleteFileEnter(c, files, c.fileId)]
  /\ UNCHANGED <<users, buckets, files, cache, nextBucketId, nextFileId, nextNameId, now, objects, signCount>>

(* uploadFile, lines 207-211: deleteFile has answered; throw error *)
UploadFileRethrow(p) ==
  /\ InHandler(p, "uploadFile", "ret")
  /\ call[p].op = "deleteFile"
  /\ LET c == call[p] IN
       call' = [call EXCEPT ![p] =
         IF c.ret = "throw" THEN Fail(c, c.err) ELSE Fail(c, ErrUploadUrl)]
  /\ UNCHANGED <<users, buckets, files, cache, nextBucketId, nextFileId, nextNameId, now, objects, signCount>>

(* -------------------------- the admin routes ------------------------- *)
(* the handlers behind LoggedInMiddleware that name a bucket; of a      *)
(* request, userId is req.user.id and key the bucket of req.params      *)
AdminHandlers == {"getBucket", "getBucketFiles", "getFile", "appUploadFile"}

ErrFileNotInThisBucket == <<"File", "not", "found", "in", "this", "bucket">>

(* any existing bucket passes *)
OwnsIfExists(bs, bucketId, userId) == bucketId \in DOMAIN bs

(* bucket?.ownerId !== userId, negated: getBucketById found a bucket and *)
(* it is the user's                                                      *)
Owns(bs, bucketId, userId) ==
  bucketId \in DOMAIN bs /\ bs[bucketId].ownerId = userId

(* getBucket, getBucketFiles, getFile, uploadFile: getBucketById and the *)
(* ownership check; getBucket answers                                    *)
AdminEnter(c, bs) ==
  IF ~Owns(bs, c.key, c.userId) THEN Fail(c, ErrBucketAccess)
  ELSE IF c.ctl = "getBucket" THEN Respond(c, 200, NoErr, c.key)
  ELSE [c EXCEPT !.pc = "owned"]

StartAdmin(p) ==
  /\ CanStart(p)
  /\ \E handler \in AdminHandlers, userId \in DOMAIN users,
        bucketId \in 1..(MaxBuckets + 1), fileId \in FileIdInputs :
       call' = [call EXCEPT ![p] =
         AdminEnter([Idle EXCEPT !.ctl = handler, !.userId = userId,
                                 !.key = bucketId,
                                 !.fileId = IF handler = "getFile" THEN fileId ELSE 0],
                    buckets)]
  /\ UNCHANGED <<users, buckets, files, cache, nextBucketId, nextFileId, nextNameId, now, objects, signCount>>

(* after the ownership check: getFilesByBucketId, getFileById and the *)
(* comparison of file.bucketId, or createFile                         *)
AdminOwned(p) ==
  /\ call[p].ctl \in AdminHandlers /\ call[p].pc = "owned"
  /\ LET c == call[p] IN
       \E name \in {<<"a">>, <<"b">>} :
         call' = [call EXCEPT ![p] =
           IF c.ctl = "getBucketFiles" THEN GetFilesByBucketIdEnter(c, buckets, c.key)
           ELSE IF c.ctl = "appUploadFile"
           THEN CreateFileEnter(c, buckets, c.key, name, 1)
           ELSE IF c.fileId = EmptyId THEN Fail(c, ErrFileIdRequired)
           ELSE IF ~FileExists(files, c.fileId) \/ files[c.fileId].bucketId # c.key
           THEN Fail(c, ErrFileNotInThisBucket)
           ELSE Respond(c, 200, NoErr, c.fileId)]
  /\ UNCHANGED <<users, buckets, files, cache, nextBucketId, nextFileId, nextNameId, now, objects, signCount>>

(* the service call has answered: the response, or the wrapper's answer *)
(* to what it threw                                                     *)
AdminRespond(p) ==
  /\ call[p].ctl \in AdminHandlers /\ call[p].pc = "ret"
  /\ LET c == call[p] IN
       call' = [call EXCEPT ![p] =
         IF c.ret = "throw" THEN Fail(c, c.err)
         ELSE IF c.ctl = "appUploadFile" THEN Respond(c, 201, NoErr, c.fileId)
         ELSE [Respond(c, 200, NoErr, c.key) EXCEPT !.result = c.result]]
  /\ UNCHANGED <<users, buckets, files, cache, nextBucketId, nextFileId, nextNameId, now, objects, signCount>>

(* ---------------------------- user accounts --------------------------- *)
MaxUsers == 3
UserPool == {"u" \o ToString(i) : i \in 1..MaxUsers}
UserIdInputs == UserPool \cup {""}
NoEmail == <<>>
EmailInputs == {<<"a">>, <<"A">>, <<"b">>, <<"c">>, <<" ", "c">>}

ErrUserExists == <<"User", "already", "exists", "with", "this", "email">>
ErrEmailExists == <<"Email", "already", "exists">>
ErrUserIdRequired == <<"User", "ID", "is", "required">>
ErrDuplicateKey == <<"E11000", "duplicate", "key", "error">>

(* no email is ever found *)
UsersByEmailNone(us, email) == {}

(* userRepository.getUserByEmail: findOne({email}); the filter is cast by *)
(* the schema, so it is trimmed and lowercased like the stored value      *)
UsersByEmail(us, email) ==
  {u \in DOMAIN us : us[u].email = NormalizeEmail(email)}

(* the unique index on email: another document already holds the value *)
EmailIndexed(us, userId, email) ==
  \E u \in DOMAIN us : u # userId /\ us[u].email = NormalizeEmail(email)

(* register, lines 38-46: getUserByEmail, then the existence check *)
RegisterEnter(c, us, email) ==
  LET d == [c EXCEPT !.op = "register", !.email = email, !.reads = 1]
  IN IF UsersByEmail(us, email) # {}
     THEN [Return(d, "throw", ErrUserExists) EXCEPT !.email = email, !.reads = 1]
     ELSE [d EXCEPT !.pc = "create"]

StartRegister(p) ==
  /\ CanStart(p)
  /\ \E e \in EmailInputs :
       call' = [call EXCEPT ![p] = RegisterEnter(Idle, users, e)]
  /\ UNCHANGED <<users, buckets, files, cache, nextBucketId, nextFileId, nextNameId, now, objects, signCount>>

(* register, lines 48-63: generateAppID, createUser, then the token *)
RegisterCreate(p) ==
  /\ InCall(p, "register", "create")
  /\ Cardinality(DOMAIN users) < MaxUsers
  /\ LET c == call[p]
         id == CHOOSE u \in UserPool : u \notin DOMAIN users IN
       IF EmailIndexed(users, id, c.email)
       THEN /\ call' = [call EXCEPT ![p] =
                 [Return(c, "throw", ErrDuplicateKey)
                    EXCEPT !.email = c.email, !.reads = c.reads]]
            /\ users' = users
       ELSE /\ users' = [u \in DOMAIN users \cup {id} |->
                           IF u = id THEN NewUser(c.email) ELSE users[u]]
            /\ call' = [call EXCEPT ![p] =
                 [Return(c, "user", NoErr)
                    EXCEPT !.email = c.email, !.reads = c.reads, !.userId = id]]
  /\ UNCHANGED <<buckets, files, cache, nextBucketId, nextFileId, nextNameId, now, objects, signCount>>

(* updateUser, lines 26-44: validation, getUserByID, then the comparison *)
(* of the new email with the stored one                                  *)
UpdateUserEnter(c, us, userId, email) ==
  LET d == [c EXCEPT !.op = "updateUser", !.userId = userId, !.email = email]
      r(msg, n) == [Return(d, "throw", msg)
                      EXCEPT !.userId = userId, !.email = email, !.reads = n]
  IN IF userId = "" THEN r(ErrUserIdRequired, 0)
     ELSE IF userId \notin DOMAIN us THEN r(ErrUserNotFound, 1)
     ELSE IF email # NoEmail /\ email # us[userId].email
     THEN [d EXCEPT !.pc = "checkEmail", !.reads = 1]
     ELSE [d EXCEPT !.pc = "write", !.reads = 1]

StartUpdateUser(p) ==
  /\ CanStart(p)
  /\ \E u \in UserIdInputs, e \in EmailInputs \cup {NoEmail} :
       call' = [call EXCEPT ![p] = UpdateUserEnter(Idle, users, u, e)]
  /\ UNCHANGED <<users, buckets, files, cache, nextBucketId, nextFileId, nextNameId, now, objects, signCount>>

(* updateUser, lines 37-41: getUserByEmail for a changed email *)
UpdateUserCheckEmail(p) ==
  /\ InCall(p, "updateUser", "checkEmail")
  /\ LET c == call[p] IN
       call' = [call EXCEPT ![p] =
         IF UsersByEmail(users, c.email) # {}
         THEN [Return(c, "throw", ErrEmailExists)
                 EXCEPT !.userId = c.userId, !.email = c.email, !.reads = 2]
         ELSE [c EXCEPT !.pc = "write", !.reads = 2]]
  /\ UNCHANGED <<users, buckets, files, cache, nextBucketId, nextFileId, nextNameId, now, objects, signCount>>

(* updateUser, line 45: findByIdAndUpdate, which casts the new email and *)
(* is refused by the unique index for a value another document holds     *)
UpdateUserWrite(p) ==
  /\ InCall(p, "updateUser", "write")
  /\ LET c == call[p]
         keep(ret, err) == [Return(c, ret, err)
                              EXCEPT !.userId = c.userId, !.email = c.email,
                                     !.reads = c.reads] IN
       IF c.userId \notin DOMAIN users
       THEN /\ call' = [call EXCEPT ![p] = keep("null", NoErr)]
            /\ users' = users
       ELSE IF c.email # NoEmail /\ EmailIndexed(users, c.userId, c.email)
       THEN /\ call' = [call EXCEPT ![p] = keep("throw", ErrDuplicateKey)]
            /\ users' = users
       ELSE /\ users' = IF c.email = NoEmail THEN users
                        ELSE [users EXCEPT ![c.userId] = NewUser(c.email)]
            /\ call' = [call EXCEPT ![p] = keep("user", NoErr)]
  /\ UNCHANGED <<buckets, files, cache, nextBucketId, nextFileId, nextNameId, now, objects, signCount>>

(* ------------------------------ states -------------------------------- *)
InitBuckets ==
  [b \in {1, 2} |-> NewBucket(<<"a", "b">>, IF b = 1 THEN "u1" ELSE "u2", b)]

Init ==
  /\ users = InitUsers
  /\ buckets = InitBuckets
  /\ files = <<>>
  /\ nextBucketId = 3
  /\ nextFileId = 1
  /\ nextNameId = 1
  /\ cache = <<>>
  /\ now = 0
  /\ objects = {}
  /\ signCount = 0
  /\ call = [p \in Procs |-> Idle]

FileStep(p) ==
  \/ StartCreateFile(p, {1, 2}, ValidFileNames, ValidSizes) \/ CreateFileCheckName(p)
  \/ CreateFileInsert(p) \/ CreateFileStats(p) \/ CreateFileUploads(p)
  \/ StartDeleteFile(p, 1..MaxFiles) \/ DeleteFileDelete(p)
  \/ DeleteFileStats(p)
  \/ StartUpdateFile(p, 1..MaxFiles, ValidFileNames)
  \/ UpdateFileCheckName(p) \/ UpdateFileWrite(p)

Next == \E p \in Procs : FileStep(p)

Spec == Init /\ [][Next]_vars

(* the store as created, and service calls made one at a time *)
InitSerial ==
  /\ users = InitUsers
  /\ buckets = <<>>
  /\ files = <<>>
  /\ nextBucketId = 1
  /\ nextFileId = 1
  /\ nextNameId = 1
  /\ cache = <<>>
  /\ now = 0
  /\ objects = {}
  /\ signCount = 0
  /\ call = [p \in Procs |-> Idle]

(* BucketService calls one at a time; files come and go in the buckets *)
BucketStep(p) ==
  \/ StartCreateBucket(p) \/ CreateBucketScan(p) \/ CreateBucketInsert(p)
  \/ StartUpdateBucket(p) \/ UpdateBucketScan(p) \/ UpdateBucketWrite(p)
  \/ StartDeleteBucket(p) \/ DeleteBucketCheckFiles(p) \/ DeleteBucketDelete(p)
  \/ StartCreateFile(p, 1..MaxBuckets, {<<"a">>}, {1})
  \/ CreateFileCheckName(p) \/ CreateFileInsert(p)
  \/ CreateFileStats(p) \/ CreateFileUploads(p)
  \/ StartDeleteFile(p, 1..MaxFiles) \/ DeleteFileDelete(p) \/ DeleteFileStats(p)

NextBuckets == BucketStep(1)

SpecBuckets == InitSerial /\ [][NextBuckets]_vars

(* FileService calls one at a time, with every kind of argument *)
SerialFileStep(p) ==
  \/ StartCreateFile(p, BucketIdInputs, FileNameInputs, SizeInputs)
  \/ CreateFileCheckName(p) \/ CreateFileInsert(p)
  \/ CreateFileStats(p) \/ CreateFileUploads(p)
  \/ StartUpdateFile(p, FileIdInputs, FileNameInputs)
  \/ UpdateFileCheckName(p) \/ UpdateFileWrite(p)
  \/ StartDeleteFile(p, FileIdInputs) \/ DeleteFileDelete(p) \/ DeleteFileStats(p)
  \/ StartGetFilesByBucketId(p, BucketIdInputs \cup {BlankId})
  \/ GetFilesByBucketIdQuery(p)

NextSerialFiles == SerialFileStep(1)

SpecSerialFiles == Init /\ [][NextSerialFiles]_vars

(* each request calls createFile once and nothing else runs *)
StartCreateFileOnce(p) ==
  /\ call[p].pc = "idle"
  /\ \E b \in {1, 2}, n \in ValidFileNames, s \in ValidSizes :
       call' = [call EXCEPT ![p] = CreateFileEnter(Idle, buckets, b, n, s)]
  /\ UNCHANGED <<users, buckets, files, nextBucketId, nextFileId, cache, nextNameId, now, objects, signCount>>

NextTwoUploads ==
  \E p \in Procs :
    \/ StartCreateFileOnce(p) \/ CreateFileCheckName(p) \/ CreateFileInsert(p)
    \/ CreateFileStats(p) \/ CreateFileUploads(p)

SpecTwoUploads == Init /\ [][NextTwoUploads]_vars

(* requests to the public routes, two in flight *)
RouteStep(p) ==
  \/ StartRequest(p) \/ GetUploadUriHandler(p, SizeInputs)
  \/ CreateFileCheckName(p) \/ CreateFileInsert(p)
  \/ CreateFileStats(p) \/ CreateFileUploads(p)
  \/ GetUploadUriSign(p)
  \/ GetDownloadUrlHandler(p) \/ DownloadFileHandler(p) \/ GetFileInfoHandler(p)

NextRoutes == \E p \in Procs : RouteStep(p)

SpecRoutes == Init /\ [][NextRoutes]_vars

(* two uploaded files, one in each bucket *)
StoredBucket(b) ==
  [NewBucket(<<"a", "b">>, IF b = 1 THEN "u1" ELSE "u2", b)
     EXCEPT !.fileCount = 1, !.totalSize = 1, !.uploadCount = 1]

InitStored ==
  /\ users = InitUsers
  /\ buckets = [b \in {1, 2} |-> StoredBucket(b)]
  /\ files = [f \in {1, 2} |-> NewFile(f, <<"a">>, 1)]
  /\ nextBucketId = 3
  /\ nextFileId = 3
  /\ nextNameId = 1
  /\ cache = <<>>
  /\ now = 0
  /\ objects = {1, 2}
  /\ signCount = 0
  /\ call = [p \in Procs |-> Idle]

(* two download-URL requests, one after the other *)
NextTwoDownloads ==
  \/ Tick
  \/ \E p \in Procs :
       \/ StartDownloadOnce(p) \/ GetDownloadUrlHandler(p)
       \/ GetDownloadUrlCache(p) \/ GetDownloadUrlSign(p)
       \/ IncrementDownloadsFile(p) \/ IncrementDownloadsBucket(p)
       \/ GetDownloadUrlRespond(p)

SpecTwoDownloads == InitStored /\ [][NextTwoDownloads]_vars

(* createFile calls one at a time, whose counter updates may be rejected *)
FaultStep(p) ==
  \/ StartCreateFile(p, {1, 2}, ValidFileNames, ValidSizes)
  \/ CreateFileCheckName(p) \/ CreateFileInsert(p)
  \/ CreateFileStats(p) \/ CreateFileStatsFail(p)
  \/ CreateFileUploads(p) \/ CreateFileUploadsFail(p)

NextFaults == FaultStep(1)

SpecFaults == Init /\ [][NextFaults]_vars

(* incrementDownloads and deleteFile calls on the stored files, two in flight *)
DownloadStep(p) ==
  \/ StartIncrementDownloads(p, FileIdInputs)
  \/ IncrementDownloadsFile(p) \/ IncrementDownloadsBucket(p)
  \/ StartDeleteFile(p, 1..MaxFiles) \/ DeleteFileDelete(p) \/ DeleteFileStats(p)

NextDownloads == \E p \in Procs : DownloadStep(p)

SpecDownloads == InitStored /\ [][NextDownloads]_vars

(* one caller of the cache functions while the clock runs; another caller *)
(* stores under the same key, also while an executor is awaited           *)
CacheStep(p) ==
  \/ StartGetFromCache(p) \/ GetFromCacheExecutor(p)
  \/ StoreInCache(p) \/ GetCache(p) \/ GetCacheTTL(p)

NextCache == Tick \/ CacheStep(1) \/ StoreInCache(2)

SpecCache == Init /\ [][NextCache]_vars

(* two callers of getFromCache on one key, each awaiting its own executor *)
NextTwoMisses == \E p \in Procs : StartGetFromCache(p) \/ GetFromCacheExecutor(p)

SpecTwoMisses == Init /\ [][NextTwoMisses]_vars

(* the lookups of BucketService while buckets are deleted *)
NextBucketReads ==
  \E p \in Procs :
    \/ GetBucketById(p) \/ GetBucketByPublicKey(p) \/ GetBucketByPrivateKey(p)
    \/ StartGetBucketsByOwnerId(p) \/ GetBucketsByOwnerIdQuery(p)
    \/ StartDeleteBucket(p) \/ DeleteBucketCheckFiles(p) \/ DeleteBucketDelete(p)

SpecBucketReads == Init /\ [][NextBucketReads]_vars

(* upload-uri requests that declare sizes around the limit, and direct *)
(* createFile calls with a negative size                              *)
BoundarySizes == {-1, 0, MaxUploadBytes, MaxUploadBytes + 1}

NextUploadSizes ==
  \E p \in Procs :
    \/ StartUploadUri(p) \/ GetUploadUriHandler(p, BoundarySizes)
    \/ StartCreateFile(p, {1, 2}, {<<"b">>}, {-1})
    \/ CreateFileCheckName(p) \/ CreateFileInsert(p)
    \/ CreateFileStats(p) \/ CreateFileUploads(p)
    \/ GetUploadUriSign(p)

SpecUploadSizes == Init /\ [][NextUploadSizes]_vars

(* two file records of which only the first has its object uploaded *)
InitHalfStored ==
  /\ users = InitUsers
  /\ buckets = [b \in {1, 2} |-> StoredBucket(b)]
  /\ files = [f \in {1, 2} |-> NewFile(f, <<"a">>, 1)]
  /\ nextBucketId = 3
  /\ nextFileId = 3
  /\ nextNameId = 1
  /\ cache = <<>>
  /\ now = 0
  /\ objects = {1}
  /\ signCount = 0
  /\ call = [p \in Procs |-> Idle]

(* streaming downloads, two in flight *)
NextStreaming ==
  \E p \in Procs :
    \/ StartDownloadFile(p) \/ DownloadFileHandler(p)
    \/ DownloadFileExists(p) \/ DownloadFileStream(p)
    \/ IncrementDownloadsFile(p) \/ IncrementDownloadsBucket(p)
    \/ DownloadFilePipe(p)
    \/ StreamData(p) \/ StreamEnd(p) \/ StreamError(p)

SpecStreaming == InitHalfStored /\ [][NextStreaming]_vars

(* requests to wrapped controller functions *)
NextWrapper == \E p \in Procs : ControllerWrapper(p)

SpecWrapper == Init /\ [][NextWrapper]_vars

(* register and updateUser, one call at a time *)
NextUsers ==
  \/ StartRegister(1) \/ RegisterCreate(1)
  \/ StartUpdateUser(1) \/ UpdateUserCheckEmail(1) \/ UpdateUserWrite(1)

SpecUsers == Init /\ [][NextUsers]_vars

(* multipart uploads, one request at a time *)
NextUpload ==
  \/ StartUpload(1) \/ UploadFileHandler(1) \/ UploadFileByName(1)
  \/ CreateFileCheckName(1) \/ CreateFileInsert(1)
  \/ CreateFileStats(1) \/ CreateFileUploads(1)
  \/ UploadFileSign(1) \/ DeleteFileDelete(1) \/ DeleteFileStats(1)
  \/ UploadFileRethrow(1) \/ Tick

SpecUpload == Init /\ [][NextUpload]_vars

(* two download-URL requests, one after the other, an hour apart *)
NextUrlExpiry ==
  \/ TickHour
  \/ \E p \in Procs :
       \/ StartDownloadOnce(p) \/ GetDownloadUrlHandler(p)
       \/ GetDownloadUrlCache(p) \/ GetDownloadUrlSign(p)
       \/ IncrementDownloadsFile(p) \/ IncrementDownloadsBucket(p)
       \/ GetDownloadUrlRespond(p)

SpecUrlExpiry == InitStored /\ [][NextUrlExpiry]_vars

(* two stored files of different sizes, one in each bucket *)
InitSized ==
  /\ users = InitUsers
  /\ buckets = [b \in {1, 2} |->
                  [StoredBucket(b) EXCEPT !.totalSize = b]]
  /\ files = [f \in {1, 2} |-> NewFile(f, <<"a">>, f)]
  /\ nextBucketId = 3
  /\ nextFileId = 3
  /\ nextNameId = 1
  /\ cache = <<>>
  /\ now = 0
  /\ objects = {1, 2}
  /\ signCount = 0
  /\ call = [p \in Procs |-> Idle]

(* deleteFile calls, two in flight *)
NextTwoDeletes ==
  \E p \in Procs :
    \/ StartDeleteFile(p, FileIdInputs) \/ DeleteFileDelete(p) \/ DeleteFileStats(p)

SpecTwoDeletes == InitSized /\ [][NextTwoDeletes]_vars

(* createFile and deleteBucket calls, two in flight *)
NextFilesAndBuckets ==
  \E p \in Procs :
    \/ StartCreateFile(p, 1..MaxBuckets, {<<"a">>}, {1})
    \/ CreateFileCheckName(p) \/ CreateFileInsert(p)
    \/ CreateFileStats(p) \/ CreateFileUploads(p)
    \/ StartDeleteBucket(p) \/ DeleteBucketCheckFiles(p) \/ DeleteBucketDelete(p)

SpecFilesAndBuckets == Init /\ [][NextFilesAndBuckets]_vars

(* upload-uri requests with every kind of Authorization header *)
NextHeaders ==
  \E p \in Procs :
    \/ StartWithHeader(p) \/ GetUploadUriHandler(p, ValidSizes)
    \/ CreateFileCheckName(p) \/ CreateFileInsert(p)
    \/ CreateFileStats(p) \/ CreateFileUploads(p) \/ GetUploadUriSign(p)

SpecHeaders == Init /\ [][NextHeaders]_vars

(* admin requests of both users, one at a time *)
NextAdmin ==
  \/ StartAdmin(1) \/ AdminOwned(1) \/ AdminRespond(1)
  \/ GetFilesByBucketIdQuery(1)
  \/ CreateFileCheckName(1) \/ CreateFileInsert(1)
  \/ CreateFileStats(1) \/ CreateFileUploads(1)

SpecAdmin == Init /\ [][NextAdmin]_vars

(* ------------------------------ claims -------------------------------- *)
RECURSIVE SumSizes(_, _)
SumSizes(fs, S) ==
  IF S = {} THEN 0
  ELSE LET f == CHOOSE x \in S : TRUE IN fs[f].size + SumSizes(fs, S \ {f})

Running(p) == call[p].pc \notin {"idle", "done", "ret"}

(* a createFile or deleteFile call on bucket b has begun and not returned *)
BusyOn(b) ==
  \E p \in Procs :
    /\ Running(p)
    /\ \/ call[p].op = "createFile" /\ call[p].bucketId = b
       \/ call[p].op = "deleteFile" /\ call[p].exBucket = b

(* C1: whenever no createFile or deleteFile call is in progress on a bucket, *)
(* its totalSize is the sum of the sizes of the file records that reference *)
(* it and its fileCount is the number of those records, whatever the         *)
(* interleaving of the calls before.                                         *)
C1_CounterConservation ==
  \A b \in DOMAIN buckets :
    ~BusyOn(b) =>
      /\ buckets[b].totalSize = SumSizes(files, FilesByBucketID(files, b))
      /\ buckets[b].fileCount = Cardinality(FilesByBucketID(files, b))

(* two files were created, one of them deleted again, all calls returned *)
C1_Witness ==
  /\ nextFileId = 3
  /\ Cardinality(DOMAIN files) = 1
  /\ \A p \in Procs : ~Running(p)
  /\ \E b \in DOMAIN buckets : buckets[b].totalSize > 0 /\ buckets[b].fileCount = 1
  /\ \E p \in Procs : call[p].op = "deleteFile" /\ call[p].ret = "true"

(* C2: in every reachable state, the intermediate states of interleaved     *)
(* createFile and deleteFile calls included, every bucket has totalSize >= 0 *)
(* and fileCount >= 0.                                                       *)
C2_CountersNonNegative ==
  \A b \in DOMAIN buckets : buckets[b].totalSize >= 0 /\ buckets[b].fileCount >= 0

(* C3: once two concurrent createFile calls on the same bucket have both     *)
(* returned a file, the bucket's totalSize has grown by the sum of the two   *)
(* sizes and its fileCount and uploadCount by 2, for every interleaving.     *)
C3_BothUploadsReflected ==
  \A b \in DOMAIN buckets :
    (\A p \in Procs :
       /\ call[p].op = "createFile" /\ call[p].pc = "done" /\ call[p].ret = "file"
       /\ files[call[p].fileId].bucketId = b)
    => /\ buckets[b].totalSize = files[call[1].fileId].size + files[call[2].fileId].size
       /\ buckets[b].fileCount = 2
       /\ buckets[b].uploadCount = 2

(* both calls returned files of different names and sizes in one bucket *)
C3_Witness ==
  /\ \A p \in Procs :
       call[p].op = "createFile" /\ call[p].pc = "done" /\ call[p].ret = "file"
  /\ files[1].bucketId = files[2].bucketId
  /\ files[1].name # files[2].name
  /\ files[1].size = 1 /\ files[2].size = 2

(* C6: two concurrent createFile calls with the same name and the same       *)
(* bucketId never both return a file: at most one record with that name      *)
(* exists in the bucket afterwards and the other call fails with a conflict. *)
C6_NoSilentDuplicate ==
  (\A p \in Procs : call[p].op = "createFile" /\ call[p].pc = "done")
  => ~ /\ call[1].ret = "file" /\ call[2].ret = "file"
       /\ files[1].bucketId = files[2].bucketId
       /\ files[1].name = files[2].name

(* the call of request 1 ends on this step with error e *)
EndsWith(e) == call'[1].err = e /\ call'[1].pc = "done" /\ call'[1] # call[1]

C4_Unique ==
  \A f, g \in DOMAIN files :
    f # g /\ files[f].bucketId = files[g].bucketId => files[f].name # files[g].name

C4_Step ==
  LET c == call[1] IN
  /\ EndsWith(ErrFileExists) => files' = files /\ buckets' = buckets
  /\ (/\ InCall(1, "createFile", "checkName")
      /\ \E f \in DOMAIN files : files[f].bucketId = c.bucketId /\ files[f].name = c.name)
     => EndsWith(ErrFileExists)
  /\ (/\ c.op = "updateFile" /\ Running(1)
      /\ \E g \in DOMAIN files \ {c.fileId} :
           files[g].bucketId = c.exBucket /\ files[g].name = c.name)
     => EndsWith(ErrFileExists)
  /\ (c.op = "updateFile" /\ Running(1) /\ c.name = c.exName)
     => call'[1].ret = "file" /\ call'[1].err = NoErr /\ files' = files

(* C4: with File Service calls made one at a time, no two file records of a  *)
(* bucket ever have the same name (exact comparison); a createFile with a    *)
(* name in use, and an updateFile to a name another file of the bucket uses, *)
(* end with the conflict error and write nothing; a rename of a file to its  *)
(* own current name succeeds.                                                *)
C4_FileNamesUnique == []C4_Unique /\ [][C4_Step]_vars

(* a rename has just been refused while two files share the bucket *)
C4_Witness ==
  /\ call[1].op = "updateFile" /\ call[1].pc = "done" /\ call[1].err = ErrFileExists
  /\ Cardinality(DOMAIN files) = 2
  /\ files[1].bucketId = files[2].bucketId

C5_Unique ==
  \A b, c \in DOMAIN buckets :
    b # c /\ buckets[b].ownerId = buckets[c].ownerId
    => NormalizeName(buckets[b].name) # NormalizeName(buckets[c].name)

C5_Step ==
  LET c == call[1]
      Others == {b \in DOMAIN buckets :
                   /\ buckets[b].ownerId = c.ownerId
                   /\ NormalizeName(buckets[b].name) = NormalizeName(c.name)
                   /\ (c.op = "updateBucket" => b # c.bucketId)}
  IN
  /\ EndsWith(ErrBucketExists) => buckets' = buckets /\ files' = files /\ Others # {}
  /\ (c.op \in {"createBucket", "updateBucket"} /\ c.pc = "scan" /\ Others # {})
     => EndsWith(ErrBucketExists)
  /\ (c.op = "updateBucket" /\ Running(1) /\ c.name = c.exName)
     => call'[1].ret = "bucket" /\ call'[1].err = NoErr /\ buckets' = buckets

(* C5: with Bucket Service calls made one at a time, no two buckets of one   *)
(* owner ever have names equal after trim and lower-casing; a createBucket   *)
(* or updateBucket that would make two ends with the conflict error and      *)
(* writes nothing; an update to the bucket's own name succeeds; a conflict   *)
(* arises only from a bucket of the same owner.                              *)
C5_BucketNamesUnique == []C5_Unique /\ [][C5_Step]_vars

(* two owners hold buckets of the same name, and a third create was refused *)
C5_Witness ==
  /\ DOMAIN buckets = {1, 2}
  /\ buckets[1].ownerId # buckets[2].ownerId
  /\ NormalizeName(buckets[1].name) = NormalizeName(buckets[2].name)
  /\ call[1].op = "createBucket" /\ call[1].err = ErrBucketExists

(* some file record references bucket b *)
Referenced(b) == \E f \in DOMAIN files : files[f].bucketId = b

C7_Step ==
  LET c == call[1] IN
  /\ \A b \in DOMAIN buckets \ DOMAIN buckets' : ~Referenced(b)
  /\ (CanStart(1) /\ call'[1].op = "deleteBucket" /\ call'[1] # c)
     => IF call'[1].pc = "done"
        THEN call'[1].err \in {ErrBucketIdRequired, ErrBucketNotFound} /\ buckets' = buckets
        ELSE call'[1].bucketId \in DOMAIN buckets
  /\ (InCall(1, "deleteBucket", "checkFiles") /\ Referenced(c.bucketId))
     => EndsWith(ErrBucketNotEmpty) /\ buckets' = buckets
  /\ (InCall(1, "deleteBucket", "checkFiles") /\ ~Referenced(c.bucketId))
     => call'[1].pc = "delete" /\ buckets' = buckets
  /\ InCall(1, "deleteBucket", "delete")
     => call'[1].ret = "true" /\ c.bucketId \notin DOMAIN buckets'

(* C7: deleteBucket removes a bucket only when no file record references it: *)
(* for an absent bucket it ends with 'Bucket not found', for a bucket with   *)
(* files it ends with the conflict error and no delete, and for an empty     *)
(* bucket the delete follows the emptiness check and succeeds.               *)
C7_DeleteBucketGuarded == [][C7_Step]_vars

(* the only bucket held a file; the file, then the bucket, were deleted *)
C7_Witness ==
  /\ call[1].op = "deleteBucket" /\ call[1].pc = "done" /\ call[1].ret = "true"
  /\ nextBucketId = 2 /\ nextFileId = 2
  /\ DOMAIN buckets = {} /\ DOMAIN files = {}

(* C8: in getUploadUri, when generating the presigned upload URL fails     *)
(* after the file record was created, the record is deleted before the     *)
(* error goes out: once the failed request is complete, the record it      *)
(* created does not exist.                                                 *)
C8_RollbackOnSignFailure ==
  \A p \in Procs :
    (/\ call[p].ctl = "getUploadUri" /\ call[p].pc = "done"
     /\ call[p].err = ErrUploadUrl)
    => ~FileExists(files, call[p].fileId)

(* a request that presents the key of bucket a for a file of another bucket *)
CrossTenant(c) ==
  /\ c.pc = "done" /\ c.key # NoBucket
  /\ FileExists(files, c.fileId) /\ files[c.fileId].bucketId # c.key

(* C9: a download-URL request made with bucket A's key for a file of       *)
(* bucket B returns no URL for it, writes no cache entry, increments no    *)
(* download counter, and fails with a not-found or an unauthorized error.  *)
C9_CrossTenantIsolation ==
  \A p \in Procs :
    (call[p].ctl = "getDownloadUrl" /\ CrossTenant(call[p]))
    => /\ call[p].out = 0
       /\ call[p].fileId \notin DOMAIN cache
       /\ files[call[p].fileId].downloads = 0
       /\ \A b \in DOMAIN buckets : buckets[b].downloadCount = 0
       /\ call[p].status \in {401, 404}

(* the response of a handler of a public route to a request for fileId, *)
(* with store fs                                                        *)
HandlerResponse(c, fs) ==
  LET h == [Idle EXCEPT !.ctl = c.ctl, !.key = c.key]
      r == IF c.ctl = "getDownloadUrl" THEN GetDownloadUrlEnter(h, fs, c.fileId)
           ELSE IF c.ctl = "downloadFile" THEN DownloadFileEnter(h, fs, c.fileId)
           ELSE GetFileInfoEnter(h, fs, TRUE, c.fileId)
  IN <<r.status, r.err>>

(* C10: to a caller holding bucket A's key, the response (status and     *)
(* message) of a download-URL, streaming-download or file-info request   *)
(* for a file id of another bucket is the response for a file id that    *)
(* exists nowhere.                                                       *)
C10_NoExistenceLeak ==
  \A p \in Procs :
    (call[p].ctl \in PublicRoutes /\ CrossTenant(call[p]))
    => <<call[p].status, call[p].err>> = HandlerResponse(call[p], <<>>)

Served(p, f) ==
  /\ call[p].ctl = "getDownloadUrl" /\ call[p].pc = "done"
  /\ call[p].status = 200 /\ call[p].out = f

C12_KeyValidatedFirst ==
  \A p \in Procs :
    /\ (call[p].ctl \in Handlers /\ call[p].pc \notin {"idle", "done"})
       => call[p].auth # NoBucket
    /\ (call[p].ctl \in Handlers /\ call[p].pc = "done" /\ call[p].key = NoBucket)
       => /\ call[p].status = 401
          /\ call[p].err \in {ErrAuthHeaderRequired, ErrInvalidPublicKey}

(* C13: createFile is all-or-nothing: when updateBucketStats or            *)
(* incrementUploadCount fails after the record was persisted the call ends *)
(* with an error, and once it has ended the bucket's totalSize, fileCount  *)
(* and uploadCount agree with its file records.                            *)
C13_NoCounterDrift ==
  ~Running(1) =>
    \A b \in DOMAIN buckets :
      LET S == {f \in DOMAIN files : files[f].bucketId = b} IN
        /\ buckets[b].totalSize = SumSizes(files, S)
        /\ buckets[b].fileCount = Cardinality(S)
        /\ buckets[b].uploadCount = Cardinality(S)

(* C14: deleteFile removes the metadata record and decrements the bucket  *)
(* counters only after the object store has deleted the file's key, so    *)
(* metadata and object store never diverge: no object is left in the      *)
(* store without its file record.                                         *)
C14_StorageDeletedFirst ==
  \A k \in objects : k \in DOMAIN files

(* the calls of p that moved in this step *)
Moved(p) == call'[p] # call[p]

C16_Step ==
  /\ \A p \in Procs :
       LET c == call[p]
           d == call'[p] IN
       /\ (CanStart(p) /\ Moved(p) /\ d.op = "incrementDownloads"
             /\ d.fileId # EmptyId /\ d.fileId \notin DOMAIN files)
          => /\ d.pc = "done" /\ d.ret = "throw" /\ d.err = ErrFileNotFound
             /\ files' = files /\ buckets' = buckets
       /\ (InCall(p, "incrementDownloads", "incFile") /\ Moved(p))
          => IF c.fileId \in DOMAIN files
             THEN /\ files' = [files EXCEPT ![c.fileId].downloads = @ + 1]
                  /\ buckets' = buckets
                  /\ d.pc = "incBucket"
             ELSE /\ files' = files /\ buckets' = buckets
                  /\ d.pc = "done" /\ d.ret = "null"
       /\ (InCall(p, "incrementDownloads", "incBucket") /\ Moved(p))
          => /\ buckets' = [buckets EXCEPT ![c.exBucket].downloadCount = @ + 1]
             /\ files' = files
             /\ d.pc = "done" /\ d.ret = "file"
  /\ (\E p \in Procs : InCall(p, "incrementDownloads", "incBucket") /\ Moved(p))
     \/ \A b \in DOMAIN buckets : buckets'[b].downloadCount = buckets[b].downloadCount

(* C16: incrementDownloads never counts partially: for an absent file it *)
(* fails with 'File not found' and increments nothing; when the file     *)
(* increment changes no row the bucket's downloadCount is not touched    *)
(* and null is returned; otherwise the file's downloads and the bucket's *)
(* downloadCount each grow by exactly 1.                                 *)
C16_NoPartialCount == [][C16_Step]_vars

(* file 1 vanished under a call that returned null; file 2 was counted once *)
C16_Witness ==
  /\ call[1].op = "incrementDownloads" /\ call[1].pc = "done"
  /\ call[1].ret = "null" /\ call[1].fileId = 1
  /\ 1 \notin DOMAIN files /\ buckets[1].downloadCount = 0
  /\ 2 \in DOMAIN files /\ files[2].downloads = 1 /\ buckets[2].downloadCount = 1

C15_Step ==
  LET c == call[1]
      d == call'[1] IN
  /\ (CanStart(1) /\ Moved(1) /\ d.op = "deleteFile"
        /\ d.fileId # EmptyId /\ d.fileId \notin DOMAIN files)
     => /\ d.pc = "done" /\ d.ret = "throw" /\ d.err = ErrFileNotFound
        /\ files' = files /\ buckets' = buckets
  /\ (InCall(1, "deleteFile", "delete") /\ Moved(1))
     => /\ c.fileId \in DOMAIN files
        /\ c.exBucket = files[c.fileId].bucketId /\ c.exSize = files[c.fileId].size
        /\ DOMAIN files' = DOMAIN files \ {c.fileId}
        /\ \A f \in DOMAIN files' : files'[f] = files[f]
        /\ buckets' = buckets
        /\ d.pc = "stats"
  /\ (InCall(1, "deleteFile", "stats") /\ Moved(1))
     => /\ buckets' = [buckets EXCEPT ![c.exBucket].totalSize = @ - c.exSize,
                                      ![c.exBucket].fileCount = @ - 1]
        /\ files' = files
        /\ d.pc = "done" /\ d.ret = "true"

(* C15: deleteFile of an existing file removes the record and lowers the *)
(* bucket's totalSize by the file's recorded size and its fileCount by   *)
(* 1, leaving uploadCount and downloadCount alone; deleteFile of an      *)
(* absent id, a second deleteFile of the same id included, fails with    *)
(* 'File not found' and changes no counter.                              *)
C15_DeleteFileCounts == [][C15_Step]_vars

(* file 1 was created and deleted, and a second deleteFile of it refused *)
C15_Witness ==
  /\ call[1].op = "deleteFile" /\ call[1].pc = "done"
  /\ call[1].err = ErrFileNotFound /\ call[1].fileId = 1
  /\ nextFileId > 1 /\ 1 \notin DOMAIN files
  /\ \E b \in DOMAIN buckets :
       buckets[b].uploadCount = 1 /\ buckets[b].fileCount = 0 /\ buckets[b].totalSize = 0

(* what createFile answers to arguments b, n, sz at once, before any await *)
C17_Early ==
  \A b \in BucketIdInputs, n \in FileNameInputs, sz \in SizeInputs :
    LET r == CreateFileEnter(Idle, buckets, b, n, sz) IN
      /\ (b = EmptyId \/ n = <<>>)
         => /\ r.pc = "done" /\ r.ret = "throw" /\ r.err = ErrAllFields
            /\ r = CreateFileEnter(Idle, <<>>, b, n, sz)
      /\ (b # EmptyId /\ n # <<>> /\ sz < 0)
         => /\ r.pc = "done" /\ r.ret = "throw" /\ r.err = ErrNegativeSize
            /\ r = CreateFileEnter(Idle, <<>>, b, n, sz)
      /\ (b # EmptyId /\ n # <<>> /\ sz >= 0 /\ b \notin DOMAIN buckets)
         => r.pc = "done" /\ r.ret = "throw" /\ r.err = ErrBucketNotFound
      /\ (b # EmptyId /\ n # <<>> /\ sz >= 0 /\ b \in DOMAIN buckets)
         => r.pc = "checkName"

C17_Step ==
  LET c == call[1]
      d == call'[1] IN
  /\ (CanStart(1) /\ Moved(1) /\ d.op = "createFile")
     => files' = files /\ buckets' = buckets
  /\ (/\ InCall(1, "createFile", "checkName") /\ Moved(1)
      /\ \E f \in DOMAIN files : files[f].bucketId = c.bucketId /\ files[f].name = c.name)
     => /\ d.pc = "done" /\ d.ret = "throw" /\ d.err = ErrFileExists
        /\ files' = files /\ buckets' = buckets
  /\ (Moved(1) /\ d.op = "createFile" /\ d.pc = "done" /\ d.ret = "throw")
     => files' = files /\ buckets' = buckets
  /\ (files' # files /\ c.op = "createFile")
     => /\ InCall(1, "createFile", "insert")
        /\ c.bucketId \in DOMAIN buckets /\ c.name # <<>> /\ c.size >= 0
        /\ ~\E f \in DOMAIN files : files[f].bucketId = c.bucketId /\ files[f].name = c.name

Unexpired(k) ==
  /\ k \in DOMAIN cache /\ cache[k].v # Undefined
  /\ cache[k].ms = 0 \/ now - cache[k].at < cache[k].ms

C18_Step ==
  LET c == call[1]
      d == call'[1] IN
  /\ (CanStart(1) /\ Moved(1) /\ d.op = "getFromCache" /\ Unexpired(d.cacheKey))
     => /\ d.pc = "done" /\ d.hit /\ d.executed = 0
        /\ d.value = cache[d.cacheKey].v
        /\ cache' = cache
  /\ (CanStart(1) /\ Moved(1) /\ d.op = "getFromCache" /\ d.cacheKey \notin DOMAIN cache)
     => d.pc = "executor" /\ cache' = cache
  /\ (InCall(1, "getFromCache", "executor") /\ Moved(1))
     => /\ d.pc = "done" /\ ~d.hit /\ d.executed = 1
        /\ d.value \notin Falsy
           => /\ c.cacheKey \in DOMAIN cache'
              /\ cache'[c.cacheKey].v = d.value
              /\ cache'[c.cacheKey].at = now
              /\ cache'[c.cacheKey].ms = c.expiresIn

C19_Step ==
  LET c == call[1]
      d == call'[1] IN
  /\ (InCall(1, "getFromCache", "executor") /\ Moved(1) /\ d.value \in Falsy)
     => /\ d.pc = "done" /\ d.executed = 1 /\ ~d.hit
        /\ cache' = cache
  /\ (/\ CanStart(1) /\ Moved(1) /\ d.op = "getFromCache"
      /\ c.op = "getFromCache" /\ c.executed = 1 /\ c.value \in Falsy
      /\ d.cacheKey = c.cacheKey /\ c.cacheKey \notin DOMAIN cache)
     => d.pc = "executor"

ReturnedTimed(p) ==
  /\ call[p].op \in {"getFromCache", "getCache"} /\ call[p].pc = "done"
  /\ call[p].hit /\ call[p].ms > 0

(* a lookup of an entry stored without expiresIn returns it *)
C20_NoExpiryStep ==
  LET d == call'[1] IN
  (/\ CanStart(1) /\ Moved(1) /\ d.op \in {"getFromCache", "getCache"}
   /\ d.cacheKey \in DOMAIN cache /\ cache[d.cacheKey].ms = 0
   /\ cache[d.cacheKey].v # Undefined)
  => d.pc = "done" /\ d.hit /\ d.value = cache[d.cacheKey].v

(* C20: an entry stored with expiresIn = T milliseconds (T > 0) is never *)
(* returned by getFromCache or getCache once T milliseconds have elapsed *)
(* since it was stored; an entry stored without expiresIn never expires. *)
C20_ExpiresAfterT ==
  /\ [](\A p \in Procs : ReturnedTimed(p) => call[p].age < call[p].ms)
  /\ [][C20_NoExpiryStep]_vars

(* the time an entry stored with expiresIn = ms lives: ms rounded up to *)
(* whole seconds                                                        *)
Lifetime(ms) == ((ms + 999) \div 1000) * 1000

C20_TimedStep ==
  LET d == call'[1] IN
  (/\ CanStart(1) /\ Moved(1) /\ d.op \in {"getFromCache", "getCache"}
   /\ d.cacheKey \in DOMAIN cache /\ cache[d.cacheKey].ms > 0)
  => IF now - cache[d.cacheKey].at <= Lifetime(cache[d.cacheKey].ms)
     THEN d.pc = "done" /\ d.hit /\ d.value = cache[d.cacheKey].v
     ELSE ~d.hit /\ d.cacheKey \notin DOMAIN cache'

(* C20, amended: an entry stored with expiresIn = T milliseconds (T > 0)  *)
(* is returned by getFromCache and getCache until T rounded up to whole   *)
(* seconds has elapsed since it was stored, that instant included, and    *)
(* never later; an entry stored without expiresIn never expires.          *)
C20_ExpiresAfterCeilSeconds ==
  /\ [](\A p \in Procs : ReturnedTimed(p) => call[p].age <= Lifetime(call[p].ms))
  /\ [][C20_TimedStep]_vars
  /\ [][C20_NoExpiryStep]_vars

(* an entry stored for 1 ms was returned a full second later *)
C20_Witness ==
  /\ call[1].op = "getCache" /\ call[1].pc = "done" /\ call[1].hit
  /\ call[1].ms = 1 /\ call[1].age = 1000

(* the instant at which an entry stored with an expiresIn expires *)
ExpiresAt(e) == e.at + Lifetime(e.ms)

C21_Step ==
  LET d == call'[1]
      k == d.cacheKey IN
  (CanStart(1) /\ Moved(1) /\ d.op = "getCacheTTL")
  => /\ d.pc = "done"
     /\ k \notin DOMAIN cache => d.ttl = -2
     /\ (k \in DOMAIN cache /\ cache[k].ms = 0) => d.ttl = -1
     /\ (k \in DOMAIN cache /\ cache[k].ms > 0 /\ now <= ExpiresAt(cache[k]))
        => d.ttl = ExpiresAt(cache[k]) - now
     /\ (k \in DOMAIN cache /\ cache[k].ms > 0 /\ now > ExpiresAt(cache[k]))
        => d.ttl = -2 /\ k \notin DOMAIN cache'

(* C21: getCacheTTL(key) returns -2 when the key is absent, -1 when the  *)
(* key is present with no expiry, and otherwise the number of            *)
(* milliseconds remaining until expiry, which is never negative.         *)
C21_CacheTTL ==
  /\ [](\A p \in Procs : call[p].op = "getCacheTTL" => call[p].ttl >= -2)
  /\ [][C21_Step]_vars

(* 999 ms remain of an entry stored for 1 ms, one millisecond later *)
C21_Witness ==
  /\ call[1].op = "getCacheTTL" /\ call[1].pc = "done" /\ call[1].ttl = 999
  /\ call[1].cacheKey \in DOMAIN cache /\ cache[call[1].cacheKey].ms = 1

(* caller p has returned from a miss with the truthy value its executor *)
(* produced                                                             *)
MissedAndStored(p) ==
  /\ call[p].op = "getFromCache" /\ call[p].pc = "done"
  /\ call[p].executed = 1 /\ ~call[p].hit /\ call[p].value \notin Falsy

(* the step in which caller p's executor returns: p stores its own value *)
(* and the other caller keeps what it has                                *)
C22_Step ==
  \A p \in Procs :
    (InCall(p, "getFromCache", "executor") /\ Moved(p))
    => /\ call'[p].pc = "done" /\ call'[p].executed = 1
       /\ call'[p].value \notin Falsy
          => /\ call[p].cacheKey \in DOMAIN cache'
             /\ cache'[call[p].cacheKey].v = call'[p].value
       /\ \A q \in Procs \ {p} : call'[q] = call[q]

(* C22: concurrent cache misses need no locking: when two getFromCache  *)
(* calls for the same key both miss, both invoke their executor, each   *)
(* caller receives the value its own executor produced, both write, and *)
(* the cache ends up holding exactly one of the two computed values;    *)
(* neither call blocks on the other.                                    *)
C22_ConcurrentMisses ==
  /\ []((MissedAndStored(1) /\ MissedAndStored(2) /\ call[1].cacheKey = call[2].cacheKey)
        => /\ call[1].cacheKey \in DOMAIN cache
           /\ cache[call[1].cacheKey].v \in {call[1].value, call[2].value})
  /\ [](\A p \in Procs : InCall(p, "getFromCache", "executor")
                            => ENABLED GetFromCacheExecutor(p))
  /\ [][C22_Step]_vars

(* both callers missed; the first got v1 and the second v2, and the *)
(* cache holds v1, which was written last                           *)
C22_Witness ==
  /\ MissedAndStored(1) /\ MissedAndStored(2)
  /\ call[1].value = "v1" /\ call[2].value = "v2"
  /\ cache[call[1].cacheKey].v = "v1"

(* a wrapped function has thrown and the wrapper has answered *)
Caught(p) ==
  /\ call[p].ctl = "wrapped" /\ call[p].pc = "done" /\ call[p].thrown # NoErr

(* C23: a failure caused by a missing entity (service errors 'File not   *)
(* found', 'Bucket not found', 'User not found') is surfaced to the HTTP *)
(* caller as a 404-equivalent (not-found) response.                      *)
C23_MissingEntityIs404 ==
  \A p \in Procs :
    (/\ Caught(p)
     /\ call[p].thrown \in {ErrFileNotFound, ErrBucketNotFound, ErrUserNotFound})
    => call[p].status = 404

(* the conditions of the default rules and of the two custom rule lists *)
IsConflict(m) == Includes(m, <<"already", "exists">>) \/ Includes(m, <<"duplicate">>)

IsUnauthorized(m) ==
  \/ Includes(m, <<"not", "found">>) \/ Includes(m, <<"Invalid", "credentials">>)
  \/ Includes(m, <<"Unauthorized">>)

IsNotFound(m) ==
  \/ Includes(m, <<"does", "not", "exist">>) \/ Includes(m, <<"Not", "found">>)
  \/ Includes(m, <<"cannot", "find">>)

IsCustom(rules, m) ==
  \/ rules = "auth" /\ Includes(m, <<"email">>) /\ Includes(m, <<"already">>)
  \/ rules = "resource" /\ (Includes(m, <<"permission">>) \/ Includes(m, <<"access">>))

C25_Step ==
  LET c == call[1]
      d == call'[1]
      b == d.bucketId IN
  /\ (CanStart(1) /\ Moved(1) /\ d.op = "getFilesByBucketId")
     => /\ b \in {EmptyId, BlankId}
           => /\ d.pc = "done" /\ d.ret = "throw"
              /\ d.err = ErrBucketIdRequired /\ d.reads = 0
        /\ (b \notin {EmptyId, BlankId} /\ b \notin DOMAIN buckets)
           => /\ d.pc = "done" /\ d.ret = "throw"
              /\ d.err = ErrBucketNotFound /\ d.reads = 1
        /\ b \in DOMAIN buckets => d.pc = "query"
  /\ (InCall(1, "getFilesByBucketId", "query") /\ Moved(1))
     => /\ d.pc = "done" /\ d.ret = "files" /\ d.err = NoErr
        /\ d.result = {f \in DOMAIN files : files[f].bucketId = c.bucketId}
  /\ (Moved(1) /\ d.op = "getFilesByBucketId") => (files' = files /\ buckets' = buckets)

(* C25: getFilesByBucketId distinguishes 'bucket gone' from 'bucket      *)
(* empty': for an empty or whitespace-only id it fails with 'Bucket ID   *)
(* is required' without any repository access, for a non-existent bucket *)
(* it fails with 'Bucket not found' without querying files, and for an   *)
(* existing bucket with no files it returns an empty list.               *)
C25_BucketGoneOrEmpty == [][C25_Step]_vars

(* the empty list of an existing bucket while the other bucket holds a file *)
C25_Witness ==
  /\ call[1].op = "getFilesByBucketId" /\ call[1].pc = "done"
  /\ call[1].ret = "files" /\ call[1].result = {}
  /\ call[1].bucketId \in DOMAIN buckets /\ files # <<>>

(* caller p makes one of the four lookups in this step *)
Looks(p) ==
  /\ CanStart(p) /\ Moved(p)
  /\ call'[p].op \in {"getBucketById", "getBucketsByOwnerId",
                      "getBucketByPublicKey", "getBucketByPrivateKey"}

(* the argument of the lookup is empty, undefined or blank *)
BlankArg(d) ==
  \/ d.op = "getBucketById" /\ d.bucketId \in {EmptyId, BlankId}
  \/ d.op = "getBucketsByOwnerId" /\ d.ownerId \in {"", " "}
  \/ d.op \in {"getBucketByPublicKey", "getBucketByPrivateKey"}
     /\ d.secret \in {<<>>, <<" ">>}

RequiredMessage(op) ==
  CASE op = "getBucketById" -> ErrBucketIdRequired
    [] op = "getBucketsByOwnerId" -> ErrOwnerIdRequired
    [] op = "getBucketByPublicKey" -> ErrPublicKeyRequired
    [] op = "getBucketByPrivateKey" -> ErrPrivateKeyRequired

(* the buckets the argument of the lookup matches *)
Matching(d) ==
  CASE d.op = "getBucketById" -> {b \in DOMAIN buckets : b = d.bucketId}
    [] d.op = "getBucketsByOwnerId" ->
         {b \in DOMAIN buckets : buckets[b].ownerId = d.ownerId}
    [] d.op = "getBucketByPublicKey" ->
         {b \in DOMAIN buckets : buckets[b].publicKey = d.secret}
    [] d.op = "getBucketByPrivateKey" ->
         {b \in DOMAIN buckets : buckets[b].privateKey = d.secret}

(* a blank argument fails before any repository call *)
C26_Validation(p) ==
  LET d == call'[p] IN
  (Looks(p) /\ BlankArg(d))
  => /\ d.pc = "done" /\ d.ret = "throw"
     /\ d.err = RequiredMessage(d.op) /\ d.reads = 0

(* a lookup of one bucket returns it, or null when there is none *)
C26_Single(p) ==
  LET d == call'[p] IN
  (Looks(p) /\ ~BlankArg(d) /\ d.op # "getBucketsByOwnerId")
  => /\ d.pc = "done" /\ d.err = NoErr
     /\ Matching(d) = {} => d.ret = "null" /\ d.out = NoBucket
     /\ Matching(d) # {} => d.ret = "bucket" /\ d.out \in Matching(d)

(* the lookup by owner does not fail when nothing matches *)
C26_OwnerNull(p) ==
  LET d == call'[p] IN
  (/\ Looks(p) /\ ~BlankArg(d) /\ d.op = "getBucketsByOwnerId"
   /\ Matching(d) = {})
  => d.ret # "throw"

(* the lookup by owner fails for an unknown owner and returns the list *)
(* of a known one                                                      *)
C26_OwnerList(p) ==
  LET c == call[p]
      d == call'[p] IN
  /\ (Looks(p) /\ ~BlankArg(d) /\ d.op = "getBucketsByOwnerId")
     => IF d.ownerId \in DOMAIN users THEN d.pc = "query"
        ELSE /\ d.pc = "done" /\ d.ret = "throw"
             /\ d.err = ErrOwnerNotFound /\ d.reads = 1
  /\ (InCall(p, "getBucketsByOwnerId", "query") /\ Moved(p))
     => /\ d.pc = "done" /\ d.ret = "buckets" /\ d.err = NoErr
        /\ d.result = {b \in DOMAIN buckets : buckets[b].ownerId = c.ownerId}

(* C26: each of getBucketById, getBucketsByOwnerId, getBucketByPublicKey *)
(* and getBucketByPrivateKey fails with a validation error on empty,     *)
(* whitespace-only or undefined input without any repository access, and *)
(* when no match exists returns null (absence is a normal outcome)       *)
(* rather than failing.                                                  *)
C26_AbsenceIsNull ==
  [][\A p \in Procs : C26_Validation(p) /\ C26_Single(p) /\ C26_OwnerNull(p)]_vars

(* C26, amended: getBucketById, getBucketByPublicKey and                 *)
(* getBucketByPrivateKey fail with a validation error on empty,          *)
(* whitespace-only or undefined input without any repository access and  *)
(* return null when no match exists; getBucketsByOwnerId fails the same  *)
(* way on such input, fails with 'Owner not found' when no user has the  *)
(* id, without querying buckets, and otherwise returns the list of the   *)
(* owner's buckets, which may be empty.                                  *)
C26_AbsenceIsNullOrOwnerNotFound ==
  [][\A p \in Procs : C26_Validation(p) /\ C26_Single(p) /\ C26_OwnerList(p)]_vars

(* null for an unknown public key, and the empty list of an owner whose *)
(* bucket was deleted                                                   *)
C26_Witness ==
  /\ call[1].op = "getBucketByPublicKey" /\ call[1].pc = "done"
  /\ call[1].ret = "null" /\ call[1].secret = <<"pub", 9>>
  /\ call[2].op = "getBucketsByOwnerId" /\ call[2].pc = "done"
  /\ call[2].ret = "buckets" /\ call[2].result = {} /\ call[2].ownerId = "u1"

(* no step changes the keys or the owner of a bucket, updateBucket's  *)
(* write changes nothing but a name, and a bucket starts with counters *)
(* at 0                                                                *)
C27_Step ==
  /\ \A b \in DOMAIN buckets \cap DOMAIN buckets' :
       /\ buckets'[b].publicKey = buckets[b].publicKey
       /\ buckets'[b].privateKey = buckets[b].privateKey
       /\ buckets'[b].ownerId = buckets[b].ownerId
  /\ \A b \in DOMAIN buckets' \ DOMAIN buckets :
       /\ buckets'[b].downloadCount = 0 /\ buckets'[b].uploadCount = 0
       /\ buckets'[b].totalSize = 0 /\ buckets'[b].fileCount = 0
  /\ (InCall(1, "updateBucket", "write") /\ Moved(1))
     => /\ DOMAIN buckets' = DOMAIN buckets
        /\ \A b \in DOMAIN buckets :
             buckets'[b] = [buckets[b] EXCEPT !.name = buckets'[b].name]

(* C27: in every reachable state each bucket's publicKey and privateKey  *)
(* equal the values assigned when it was created (updateBucket changes   *)
(* only the name and leaves keys, ownerId and the four counters          *)
(* unchanged), no two buckets share a publicKey or a privateKey, and a   *)
(* newly created bucket has all four counters equal to 0.                *)
C27_KeysImmutableUnique ==
  /\ [](\A a, b \in DOMAIN buckets :
          a # b => /\ buckets[a].publicKey # buckets[b].publicKey
                   /\ buckets[a].privateKey # buckets[b].privateKey)
  /\ [][C27_Step]_vars

(* a bucket was renamed while two buckets exist and one of them holds a file *)
C27_Witness ==
  /\ call[1].op = "updateBucket" /\ call[1].pc = "done" /\ call[1].ret = "bucket"
  /\ DOMAIN buckets = {1, 2}
  /\ \E b \in DOMAIN buckets :
       buckets[b].fileCount = 1 /\ buckets[b].name = <<"b", "a">>

(* the steps of an upload-URI request: the key is validated before the *)
(* handler runs, the record is created for the validated bucket, and   *)
(* the URL is signed and delivered for the record createFile returned  *)
C28_Step ==
  \A p \in Procs :
    LET c == call[p]
        d == call'[p] IN
    /\ (CanStart(p) /\ Moved(p) /\ d.ctl = "getUploadUri" /\ d.pc = "handler")
       => d.auth # NoBucket /\ d.auth = d.key /\ d.auth \in DOMAIN buckets
    /\ (InHandler(p, "getUploadUri", "handler") /\ Moved(p) /\ d.op = "createFile")
       => c.auth # NoBucket /\ (d.pc = "checkName" => d.bucketId = c.auth)
    /\ (InHandler(p, "getUploadUri", "ret") /\ Moved(p) /\ d.status = 200)
       => /\ c.ret = "file" /\ d.out = c.fileId
          /\ d.out \in DOMAIN files /\ files[d.out].bucketId = c.auth

C29_Step ==
  \A p \in Procs :
    LET d == call'[p] IN
    /\ (InHandler(p, "getUploadUri", "handler") /\ Moved(p))
       => /\ files' = files /\ buckets' = buckets
          /\ d.op = "createFile" /\ d.pc = "checkName"
             => d.size > 0 /\ d.size <= 104857600
    /\ (CanStart(p) /\ Moved(p) /\ d.ctl = "none" /\ d.op = "createFile")
       => /\ d.pc = "done" /\ d.ret = "throw" /\ d.err = ErrNegativeSize
          /\ files' = files /\ buckets' = buckets

(* C29: size boundary: on the public upload path a declared file size of *)
(* exactly 100 MiB (104857600 bytes) is accepted and 100 MiB + 1 byte is *)
(* rejected with a validation error before any file record is created;   *)
(* a negative size is rejected on every path (request validators and     *)
(* createFile itself).                                                   *)
C29_SizeBoundary ==
  /\ [](\A p \in Procs :
          (call[p].ctl = "getUploadUri" /\ call[p].pc = "done")
          => /\ call[p].err = ErrSizeTooLarge
                => /\ call[p].status = 422 /\ call[p].size >= 104857601
                   /\ call[p].fileId = 0
             /\ call[p].err = ErrNegativeSize
                => /\ call[p].status = 422 /\ call[p].size < 0
                   /\ call[p].fileId = 0
             /\ call[p].size \in {-1, 104857601} => call[p].status = 422)
  /\ [](\A f \in DOMAIN files : files[f].size > 0 /\ files[f].size <= 104857600)
  /\ [][C29_Step]_vars

(* a URL was delivered for a record of exactly 100 MiB, and a request *)
(* declaring one byte more was refused                                *)
C29_Witness ==
  /\ call[1].ctl = "getUploadUri" /\ call[1].pc = "done" /\ call[1].status = 200
  /\ call[1].out \in DOMAIN files /\ files[call[1].out].size = 104857600
  /\ call[2].ctl = "getUploadUri" /\ call[2].pc = "done"
  /\ call[2].err = ErrSizeTooLarge /\ call[2].size = 104857601

(* the steps of a streaming download: without the object the request *)
(* fails at the existence check, the stream is opened only by a       *)
(* request whose check was answered true, and only such a request     *)
(* counts a download                                                  *)
C30_Step ==
  \A p \in Procs :
    LET c == call[p]
        d == call'[p] IN
    /\ (InHandler(p, "downloadFile", "exists") /\ Moved(p) /\ c.fileId \notin objects)
       => /\ d.pc = "done" /\ d.status >= 400 /\ ~d.opened
          /\ files' = files /\ buckets' = buckets
    /\ (d.ctl = "downloadFile" /\ d.opened /\ ~c.opened)
       => c.exists /\ c.fileId \in objects
    /\ (c.ctl = "downloadFile" /\ Moved(p) /\ (files' # files \/ buckets' # buckets))
       => c.exists /\ c.opened /\ c.fileId \in objects

C31_UniqueEmails ==
  \A u, v \in DOMAIN users : u # v => users[u].email # users[v].email

Finished(p) == call'[p] # call[p] /\ call'[p].pc = "done"

C31_Step ==
  \A p \in Procs :
    LET d == call'[p]
        e == ToLowerCase(Trim(d.email)) IN
    /\ (Finished(p) /\ d.op = "register")
       => IF \E u \in DOMAIN users : users[u].email = e
          THEN d.ret = "throw" /\ d.err = ErrUserExists /\ users' = users
          ELSE /\ d.ret = "user"
               /\ \E id \in UserPool \ DOMAIN users :
                    /\ DOMAIN users' = DOMAIN users \cup {id}
                    /\ users'[id].email = e
                    /\ \A u \in DOMAIN users : users'[u] = users[u]
    /\ (Finished(p) /\ d.op = "updateUser" /\ d.userId \in DOMAIN users
          /\ d.email # NoEmail)
       => /\ (\E v \in DOMAIN users : v # d.userId /\ users[v].email = e)
             => d.ret = "throw" /\ d.err = ErrEmailExists /\ users' = users
          /\ d.email = users[d.userId].email
             => d.ret = "user" /\ d.reads = 1 /\ users' = users

C31_UsersUnique == []C31_UniqueEmails /\ [][C31_Step]_vars

C31_Witness ==
  /\ Cardinality(DOMAIN users) = MaxUsers
  /\ call[1].pc = "done" /\ call[1].op = "updateUser"
  /\ call[1].err = ErrEmailExists

(* C32: in uploadFile, when the presigned URL cannot be generated after *)
(* the file record was created, deleteFile runs before the error is    *)
(* thrown again: the record is gone, the bucket's totalSize and        *)
(* fileCount are what they were before the request, and the caller     *)
(* receives the storage error                                          *)
C32_Step ==
  \A p \in Procs :
    LET c == call[p]
        d == call'[p] IN
    (c.ctl = "uploadFile" /\ c.pc = "ret" /\ c.op = "deleteFile" /\ d.pc = "done")
    => /\ c.fileId \notin DOMAIN files'
       /\ buckets'[c.auth].totalSize = c.before[1]
       /\ buckets'[c.auth].fileCount = c.before[2]
       /\ d.err = ErrUploadUrl /\ d.status = 500

C32_Compensation == [][C32_Step]_vars

C32_Witness ==
  /\ call[1].ctl = "uploadFile" /\ call[1].pc = "done"
  /\ call[1].err = ErrUploadUrl /\ call[1].before = <<1, 1>>

(* C33: a declared size of 0 is valid: createFile accepts size = 0, and *)
(* getUploadUri with fileSize = 0 creates the record and returns an     *)
(* upload URL                                                           *)
C33_ZeroSizeAccepted ==
  \A p \in Procs :
    (/\ call[p].ctl = "getUploadUri" /\ call[p].pc = "done"
     /\ call[p].declared /\ call[p].size = 0)
    => call[p].status = 200 /\ call[p].out # 0

(* the instant a URL was signed at, read from the URL *)
SignedAt(u) ==
  CHOOSE t \in HourInstants :
    \E f \in FileIdInputs, n \in 0..Cardinality(Procs) : u = PresignedUrl(f, n, t)

(* C34: every download URL delivered by getDownloadUrl, fresh or cached, *)
(* is within its 3600 seconds of validity at the moment it is delivered, *)
(* and a live cache entry never holds a URL that has expired             *)
C34_EntryWithinValidity ==
  \A k \in DOMAIN cache :
    CacheLive(cache[k], now) => now <= SignedAt(cache[k].v) + UrlValidityMs

C34_Delivery ==
  \A p \in Procs :
    (/\ call[p].ctl = "getDownloadUrl" /\ call[p].pc = "ret"
     /\ call'[p].pc = "done" /\ call'[p].status = 200)
    => now <= SignedAt(call'[p].url) + UrlValidityMs

OwedSize(p, b) ==
  IF call[p].op = "deleteFile" /\ call[p].pc = "stats" /\ call[p].exBucket = b
  THEN call[p].exSize ELSE 0

OwedCount(p, b) ==
  IF call[p].op = "deleteFile" /\ call[p].pc = "stats" /\ call[p].exBucket = b
  THEN 1 ELSE 0

(* C35: when two deleteFile calls for the same file id run concurrently, *)
(* for every interleaving of their read, delete and counter steps the    *)
(* bucket's totalSize and fileCount are decremented exactly once, by the *)
(* file's size and by 1: the counters are those of the records left plus *)
(* the decrements still owed, and both calls never report a deletion     *)
C35_DecrementedOnce ==
  /\ \A b \in DOMAIN buckets :
       /\ buckets[b].totalSize =
            SumSizes(files, {f \in DOMAIN files : files[f].bucketId = b})
            + OwedSize(1, b) + OwedSize(2, b)
       /\ buckets[b].fileCount =
            Cardinality({f \in DOMAIN files : files[f].bucketId = b})
            + OwedCount(1, b) + OwedCount(2, b)
  /\ ~ /\ call[1].op = "deleteFile" /\ call[2].op = "deleteFile"
       /\ call[1].fileId = call[2].fileId
       /\ call[1].pc \in {"stats", "done"} /\ call[2].pc \in {"stats", "done"}
       /\ call[1].pc = "done" => call[1].ret = "true"
       /\ call[2].pc = "done" => call[2].ret = "true"

C35_Witness ==
  /\ call[1].op = "deleteFile" /\ call[2].op = "deleteFile"
  /\ call[1].fileId = 2 /\ call[2].fileId = 2
  /\ call[1].pc = "done" /\ call[2].pc = "done"
  /\ call[1].ret = "false" /\ call[2].ret = "true"
  /\ buckets[2].totalSize = 0 /\ buckets[2].fileCount = 0

(* C36: referential integrity: in every reachable state every file     *)
(* record's bucketId refers to an existing bucket, for any interleaving *)
(* of createFile (bucket check, then insert) with deleteBucket          *)
(* (emptiness check, then delete)                                       *)
C36_ReferentialIntegrity ==
  \A f \in DOMAIN files : files[f].bucketId \in DOMAIN buckets

RECURSIVE SumDownloads(_, _)
SumDownloads(fs, S) ==
  IF S = {} THEN 0
  ELSE LET f == CHOOSE x \in S : TRUE IN fs[f].downloads + SumDownloads(fs, S \ {f})

(* the incrementDownloads calls that have incremented a file of bucket b *)
(* and not yet the bucket                                                *)
OwedDownloads(cl, b) ==
  Cardinality({p \in Procs : /\ cl[p].op = "incrementDownloads"
                             /\ cl[p].pc = "incBucket" /\ cl[p].exBucket = b})

(* the file-level increments of this step on files of bucket b *)
FileIncrements(b) ==
  Cardinality({f \in DOMAIN files \cap DOMAIN files' :
                 /\ files[f].bucketId = b
                 /\ files'[f].downloads = files[f].downloads + 1})

(* C37: whenever no incrementDownloads call is in progress a bucket's    *)
(* downloadCount is the number of file-level increments that succeeded   *)
(* for its files, hence at least the sum of the downloads of its current *)
(* files, for any interleaving with deleteFile: every succeeded          *)
(* file-level increment adds one to the count or to what a call in       *)
(* progress still owes it, and nothing else changes them                 *)
C37_AtLeastCurrent ==
  \A b \in DOMAIN buckets :
    buckets[b].downloadCount + OwedDownloads(call, b)
      >= SumDownloads(files, {f \in DOMAIN files : files[f].bucketId = b})

C37_Step ==
  \A b \in DOMAIN buckets \cap DOMAIN buckets' :
    buckets'[b].downloadCount + OwedDownloads(call', b)
      = buckets[b].downloadCount + OwedDownloads(call, b) + FileIncrements(b)

C37_DownloadCount == []C37_AtLeastCurrent /\ [][C37_Step]_vars

C37_Witness ==
  /\ \A p \in Procs : ~Running(p)
  /\ 1 \notin DOMAIN files
  /\ buckets[1].downloadCount = MaxDownloads
  /\ \E p \in Procs : call[p].op = "incrementDownloads" /\ call[p].ret = "file"
  /\ \E p \in Procs : call[p].op = "deleteFile" /\ call[p].ret = "true"

(* C38: PublicKeyMiddleware calls next() exactly when the Authorization  *)
(* header is 'Bearer <key>' and <key> is the public key of an existing   *)
(* bucket, and then req.bucket is that bucket; in every other case       *)
(* (missing header, no 'Bearer ' prefix, empty or whitespace key,        *)
(* unknown key, lookup error) it sends exactly one 401 response and      *)
(* never calls next()                                                    *)
C38_Step ==
  \A p \in Procs :
    LET d == call'[p]
        h == d.header
        known == /\ h.scheme = "Bearer "
                 /\ \E b \in DOMAIN buckets : buckets[b].publicKey = h.key
    IN (call[p].pc \in {"idle", "done"} /\ d # call[p])
       => IF known /\ d.err # ErrRepository
          THEN /\ d.pc = "handler" /\ d.sent = 0 /\ ~d.headersSent
               /\ d.auth \in DOMAIN buckets
               /\ buckets[d.auth].publicKey = h.key
          ELSE /\ d.pc = "done" /\ d.status = 401 /\ d.sent = 1
               /\ d.auth = NoBucket

C38_NextOnlyForKnownKey == [][C38_Step]_vars

C38_Witness ==
  /\ call[1].pc = "handler" /\ call[1].header = [scheme |-> "Bearer ", key |-> <<"pub", 1>>]
  /\ call[2].pc = "done" /\ call[2].header = [scheme |-> "Bearer ", key |-> <<"pub", 1>>]
  /\ call[2].status = 401 /\ call[2].err = ErrRepository

(* C39: an admin request on a bucket (getBucket, getBucketFiles, getFile, *)
(* uploadFile) succeeds only when the bucket's ownerId is the             *)
(* authenticated user's id, and getFile only when the file's bucketId is  *)
(* the requested bucket; for a bucket of another user the handler fails   *)
(* with the same error as for a bucket that does not exist, returns no    *)
(* data, and no file record is created                                    *)
C39_Step ==
  /\ \A p \in Procs :
       LET d == call'[p]
           mine == /\ d.key \in DOMAIN buckets
                   /\ buckets[d.key].ownerId = d.userId
       IN (d.ctl \in {"getBucket", "getBucketFiles", "getFile", "appUploadFile"}
             /\ d.pc = "done" /\ d # call[p])
          => /\ d.status \in {200, 201} => mine
             /\ (d.status \in {200, 201} /\ d.ctl = "getFile")
                => d.out \in DOMAIN files /\ files[d.out].bucketId = d.key
             /\ ~mine => /\ d.err = <<"Bucket", "not", "found", "or", "access", "denied">>
                         /\ d.status = 401 /\ d.out = 0 /\ d.result = {}
                         /\ files' = files
  /\ \A f \in DOMAIN files' \ DOMAIN files :
       \E p \in Procs :
         /\ call[p].ctl = "appUploadFile"
         /\ files'[f].bucketId = call[p].key
         /\ files'[f].bucketId \in DOMAIN buckets
         /\ buckets[files'[f].bucketId].ownerId = call[p].userId

C39_OwnerOnly == [][C39_Step]_vars

C39_Witness ==
  /\ call[1].ctl = "getFile" /\ call[1].pc = "done" /\ call[1].userId = "u1"
  /\ call[1].key = 2 /\ call[1].fileId = 1
  /\ 1 \in DOMAIN files /\ files[1].bucketId = 2
  /\ call[1].err = <<"Bucket", "not", "found", "or", "access", "denied">>

====
